---- MODULE Spec2Model ----
(***************************************************************************)
(* Model of scripts/analyze-test-logs.py: the LogAnalyzer run              *)
(* (analyze_all_logs), its five category analyzers, the generic log-file   *)
(* analyzer, the structured status analyzers and the summary and           *)
(* recommendation engine.                                                  *)
(*                                                                         *)
(* Text is modelled as a sequence of tokens: a token is an atom of text    *)
(* (a word, a timestamp, the newline character).  Names (categories,       *)
(* metric keys, pattern-class names, file stems) are sequences of name     *)
(* tokens so that Python's substring tests and str.replace are computed.   *)
(* Python values (JSON payloads, metric values) are tagged records.        *)
(***************************************************************************)
EXTENDS Integers, Sequences, FiniteSets, TLC

VARIABLES fs, pc, issues, insights, metrics, timeline, results, exc,
          writes, listing, digest, run, first, sources, collected, security

vars == <<fs, pc, issues, insights, metrics, timeline, results, exc,
          writes, listing, digest, run, first, sources, collected, security>>

(***************************************************************************)
(* Bounds of the model.                                                    *)
(***************************************************************************)
\* longest text body (in tokens) of the exhaustively enumerated log bodies
MaxLen == 4
\* largest number of *.log files in the molecule directory
MaxMoleculeLogs == 1

(***************************************************************************)
(* Python values.                                                          *)
(***************************************************************************)
PyNone == [t |-> "none"]
PyInt(n) == [t |-> "int", n |-> n]
PyStr(s) == [t |-> "str", s |-> s]
PyBool(b) == [t |-> "bool", b |-> b]
PyList(l) == [t |-> "list", l |-> l]
PyDict(f) == [t |-> "dict", f |-> f]

\* the empty mapping {}
EmptyMap == [k \in {} |-> PyNone]

\* d[k] = v on a mapping
Put(m, k, v) == [x \in (DOMAIN m) \cup {k} |-> IF x = k THEN v ELSE m[x]]

\* datetime.now().isoformat(): the wall clock is not modelled
Now == "<now>"

(***************************************************************************)
(* The collector: the four instance attributes of LogAnalyzer.             *)
(***************************************************************************)
\* writes is the log of the metric keys written, in the order of the writes
Collector(i, n, m, t, w) ==
    [issues |-> i, insights |-> n, metrics |-> m, timeline |-> t, writes |-> w]

EmptyCollector == Collector(<<>>, <<>>, EmptyMap, <<>>, <<>>)

\* a message: the format string and the rendered arguments of an f-string
Msg(fmt, args) == [fmt |-> fmt, args |-> args]

\* outcome of a piece of code: the collector it leaves and the exception it
\* raised ("" when it returned normally)
Ok(c) == [c |-> c, exc |-> ""]
Raise(c, e) == [c |-> c, exc |-> e]

AddIssue(c, category, message, severity) ==
    [c EXCEPT !.issues = Append(@, [category |-> category, message |-> message,
                                    severity |-> severity, timestamp |-> Now])]

\* the list is replaced by the new Insight
AddInsightLatest(c, category, message) ==
    [c EXCEPT !.insights = <<[category |-> category, message |-> message,
                              timestamp |-> Now]>>]

AddInsight(c, category, message) ==
    [c EXCEPT !.insights = Append(@, [category |-> category, message |-> message,
                                      timestamp |-> Now])]

\* the event is put in front of the timeline
AddTimelineEventFront(c, category, timestamp, event) ==
    [c EXCEPT !.timeline = <<[category |-> category, timestamp |-> timestamp,
                              event |-> event]>> \o @]

AddTimelineEvent(c, category, timestamp, event) ==
    [c EXCEPT !.timeline = Append(@, [category |-> category, timestamp |-> timestamp,
                                      event |-> event])]

SetMetric(c, key, value) ==
    [c EXCEPT !.metrics = Put(@, key, value), !.writes = Append(@, key)]

(***************************************************************************)
(* Names.                                                                  *)
(***************************************************************************)
\* f'{category}_{facet}'
Key(category, facet) == category \o <<"_">> \o facet

\* the test succeeds for every name
NameContainsAny(name, word) == TRUE

\* 'word' in name
NameContains(name, word) == \E i \in 1..Len(name) : name[i] = word

\* name.replace('-', '_')
ReplaceDash(name) == [i \in 1..Len(name) |-> IF name[i] = "-" THEN "_" ELSE name[i]]

(***************************************************************************)
(* Text.  A body is a sequence of tokens; "\n" is the newline character.   *)
(***************************************************************************)
NL == "\n"

\* str.lower() on a token (re.IGNORECASE compares case-folded text)
Lower(tok) ==
    CASE tok = "WARNING" -> "warning"
      [] tok = "Kernel" -> "kernel"
      [] tok = "PLAY RECAP" -> "play recap"
      [] tok = "FAILED! =>" -> "failed! =>"
      [] tok = "AssertionError" -> "assertionerror"
      [] tok = "TASK" -> "task"
      [] tok = "Test" -> "test"
      [] tok = "CPU" -> "cpu"
      [] OTHER -> tok

\* the case-folded tokens whose text contains the literal lit
Lit(lit) ==
    CASE lit = "panic" -> {"panic", "panic:"}
      [] lit = "failed" -> {"failed", "failed=0", "failed=1", "failed! =>"}
      [] lit = "failed=[1-9]" -> {"failed=1"}
      [] lit = "error" -> {"error", "assertionerror"}
      [] lit = "warning" -> {"warning", "warnings"}
      [] lit = "start" -> {"start", "starting"}
      [] lit = "connect" -> {"connect", "connected"}
      [] lit = "unreachable" -> {"unreachable", "unreachable="}
      [] lit = "time" -> {"time", "timeout"}
      [] OTHER -> {lit}

\* a regular expression of the form  lit1.*lit2.* ... .*litk  with its source text
Pattern(src, lits) == [src |-> src, pieces |-> [i \in 1..Len(lits) |-> Lit(lits[i])]]

Max(S) == CHOOSE x \in S : \A y \in S : y <= x

\* last index of the line that holds position i ('.' does not match a newline)
LineEnd(s, i) == Max({j \in i..Len(s) : \A k \in (i + 1)..j : s[k] # NL})

\* re.match of the pieces at position i: the index of the last token of the
\* match, 0 when there is none.  '.*' is greedy: the next piece is taken at
\* the rightmost place of the line from which the rest still matches.
RECURSIVE MatchEnd(_, _, _)
MatchEnd(pieces, s, i) ==
    IF i > Len(s) \/ Lower(s[i]) \notin pieces[1] THEN 0
    ELSE IF Len(pieces) = 1 THEN i
    ELSE LET rest == Tail(pieces)
             cands == {q \in (i + 1)..LineEnd(s, i) : MatchEnd(rest, s, q) # 0}
         IN  IF cands = {} THEN 0 ELSE MatchEnd(rest, s, Max(cands))

\* len(re.findall(pattern, content, re.IGNORECASE)): leftmost, non-overlapping
RECURSIVE FindAllFrom(_, _, _)
FindAllFrom(pieces, s, i) ==
    IF i > Len(s) THEN 0
    ELSE LET e == MatchEnd(pieces, s, i)
         IN  IF e # 0 THEN 1 + FindAllFrom(pieces, s, e + 1)
             ELSE FindAllFrom(pieces, s, i + 1)

FindAll(pattern, content) == FindAllFrom(pattern.pieces, content, 1)

\* content.split('\n')
RECURSIVE Split(_)
Split(s) ==
    IF \A i \in 1..Len(s) : s[i] # NL THEN <<s>>
    ELSE LET i == CHOOSE j \in 1..Len(s) : s[j] = NL /\ \A k \in 1..(j - 1) : s[k] # NL
         IN  <<SubSeq(s, 1, i - 1)>> \o Split(SubSeq(s, i + 1, Len(s)))

(***************************************************************************)
(* Timestamps.  A timestamp occurrence is one token, a string that is read *)
(* character by character; an instant is the tuple of its six fields,      *)
(* ordered as datetime objects are.                                        *)
(***************************************************************************)
\* the i-th character of a string
Char(s, i) == SubSeq(s, i, i)

\* int(ch) of a decimal digit, -1 for another character
Digit(ch) ==
    CASE ch = "0" -> 0 [] ch = "1" -> 1 [] ch = "2" -> 2 [] ch = "3" -> 3 [] ch = "4" -> 4
      [] ch = "5" -> 5 [] ch = "6" -> 6 [] ch = "7" -> 7 [] ch = "8" -> 8 [] ch = "9" -> 9
      [] OTHER -> -1

\* \d
IsDigit(ch) == Digit(ch) >= 0

Letters ==
    {"a", "b", "c", "d", "e", "f", "g", "h", "i", "j", "k", "l", "m",
     "n", "o", "p", "q", "r", "s", "t", "u", "v", "w", "x", "y", "z",
     "A", "B", "C", "D", "E", "F", "G", "H", "I", "J", "K", "L", "M",
     "N", "O", "P", "Q", "R", "S", "T", "U", "V", "W", "X", "Y", "Z"}

\* \w
IsWord(ch) == IsDigit(ch) \/ ch \in Letters \/ ch = "_"

\* a fixed-width pattern is written as a template: d stands for \d, w for \w,
\* every other character for itself
Fits(tok, template) ==
    /\ Len(tok) = Len(template)
    /\ \A i \in 1..Len(template) :
          CASE Char(template, i) = "d" -> IsDigit(Char(tok, i))
            [] Char(template, i) = "w" -> IsWord(Char(tok, i))
            [] OTHER -> Char(tok, i) = Char(template, i)

\* the three patterns of _extract_timestamps; [T ] gives two templates
IsoShape == {"dddd-dd-dd dd:dd:dd", "dddd-dd-ddTdd:dd:dd"}
SlashShape == {"dd/dd/dddd dd:dd:dd"}
SyslogShape == {"www dd dd:dd:dd"}

TimestampShapes == <<IsoShape, SlashShape, SyslogShape>>

\* the token is a match of the pattern
Matches(shape, tok) == \E template \in shape : Fits(tok, template)

FmtSpace == "%Y-%m-%d %H:%M:%S"
FmtT == "%Y-%m-%dT%H:%M:%S"

\* the text a format accepts for a match of the patterns above, as a template:
\* %Y is four digits, the other directives are two
RECURSIVE FmtTemplate(_)
FmtTemplate(fmt) ==
    IF fmt = "" THEN ""
    ELSE IF Char(fmt, 1) = "%"
    THEN (IF Char(fmt, 2) = "Y" THEN "dddd" ELSE "dd") \o FmtTemplate(SubSeq(fmt, 3, Len(fmt)))
    ELSE Char(fmt, 1) \o FmtTemplate(SubSeq(fmt, 2, Len(fmt)))

\* the number written at positions i..j
RECURSIVE Num(_, _, _)
Num(s, i, j) == IF i > j THEN 0 ELSE Num(s, i, j - 1) * 10 + Digit(Char(s, j))

IsLeap(year) == year % 4 = 0 /\ (year % 100 # 0 \/ year % 400 = 0)

DaysIn(year, month) ==
    IF month \in {4, 6, 9, 11} THEN 30
    ELSE IF month = 2 THEN (IF IsLeap(year) THEN 29 ELSE 28)
    ELSE 31

\* ValueError
NoInstant == <<>>

\* datetime.strptime(match, fmt): the instant, or NoInstant for ValueError
Strptime(match, fmt) ==
    IF ~Fits(match, FmtTemplate(fmt)) THEN NoInstant
    ELSE LET year == Num(match, 1, 4)
             month == Num(match, 6, 7)
             day == Num(match, 9, 10)
             hour == Num(match, 12, 13)
             minute == Num(match, 15, 16)
             second == Num(match, 18, 19)
         IN  IF /\ year >= 1
                /\ month \in 1..12
                /\ day \in 1..DaysIn(year, month)
                /\ hour <= 23
                /\ minute <= 59
                /\ second <= 59
             THEN <<year, month, day, hour, minute, second>>
             ELSE NoInstant

\* str(n) padded with zeros to the width
RECURSIVE Pad(_, _)
Pad(text, width) == IF Len(text) >= width THEN text ELSE Pad("0" \o text, width)

\* datetime.isoformat()
IsoFormat(instant) ==
    Pad(ToString(instant[1]), 4) \o "-" \o Pad(ToString(instant[2]), 2) \o "-"
        \o Pad(ToString(instant[3]), 2) \o "T" \o Pad(ToString(instant[4]), 2) \o ":"
        \o Pad(ToString(instant[5]), 2) \o ":" \o Pad(ToString(instant[6]), 2)

\* a < b on datetime objects
Before(a, b) == \E i \in 1..6 : a[i] < b[i] /\ \A j \in 1..(i - 1) : a[j] = b[j]

\* the second format is never tried
ParseTimestampSpaceOnly(match) ==
    IF Strptime(match, FmtSpace) # NoInstant THEN <<Strptime(match, FmtSpace)>> ELSE <<>>

\* the loop body of _extract_timestamps for one match
ParseTimestamp(match) ==
    IF Strptime(match, FmtSpace) # NoInstant THEN <<Strptime(match, FmtSpace)>>
    ELSE IF Strptime(match, FmtT) # NoInstant THEN <<Strptime(match, FmtT)>>
    ELSE <<>>

\* the parsed matches of one pattern, in text order
RECURSIVE ParsedMatches(_, _)
ParsedMatches(shape, s) ==
    IF s = <<>> THEN <<>>
    ELSE (IF Matches(shape, Head(s)) THEN ParseTimestamp(Head(s)) ELSE <<>>)
         \o ParsedMatches(shape, Tail(s))

\* the list is returned as collected
Unsorted(timestamps) == timestamps

\* sorted(timestamps)
Sorted(timestamps) == SortSeq(timestamps, LAMBDA a, b : Before(a, b))

ExtractTimestamps(content) ==
    LET timestamps == ParsedMatches(TimestampShapes[1], content)
                      \o ParsedMatches(TimestampShapes[2], content)
                      \o ParsedMatches(TimestampShapes[3], content)
    IN  Sorted(timestamps)


(***************************************************************************)
(* Files of the log directory.                                             *)
(***************************************************************************)
\* an undecodable byte (not valid UTF-8)
BadByte == "<0xff>"

Absent == [k |-> "absent"]
\* the file exists but open() raises PermissionError
Unreadable == [k |-> "unreadable"]
\* a file holding the given bytes, as tokens
TextFile(body) == [k |-> "text", body |-> body]
\* a file holding the JSON text of the value v
JsonFile(v) == [k |-> "json", v |-> v]
\* a file holding text that is not JSON
MalformedJson == [k |-> "malformed"]
\* a file holding bytes that are not valid UTF-8
UndecodableJson == [k |-> "undecodable"]

\* Path.exists()
Exists(file) == file.k # "absent"

PermissionDenied == "[Errno 13] Permission denied"

\* open(path, 'r', encoding='utf-8', errors='ignore').read()
ReadIgnore(file) ==
    IF file.k = "text"
    THEN [exc |-> "", content |-> SelectSeq(file.body, LAMBDA tok : tok # BadByte), err |-> ""]
    ELSE [exc |-> "PermissionError", content |-> <<>>, err |-> PermissionDenied]

CantDecode == "'utf-8' codec can't decode byte 0xff"

\* open(path, 'r').read()
ReadStrict(file) ==
    IF file.k # "text"
    THEN [exc |-> "PermissionError", content |-> <<>>, err |-> PermissionDenied]
    ELSE IF \E i \in 1..Len(file.body) : file.body[i] = BadByte
    THEN [exc |-> "UnicodeDecodeError", content |-> <<>>, err |-> CantDecode]
    ELSE [exc |-> "", content |-> file.body, err |-> ""]

\* with open(path, 'r') as f: json.load(f)
JsonLoad(file) ==
    CASE file.k = "json" -> [exc |-> "", v |-> file.v]
      [] file.k = "malformed" -> [exc |-> "JSONDecodeError", v |-> PyNone]
      [] file.k = "undecodable" -> [exc |-> "UnicodeDecodeError", v |-> PyNone]
      [] OTHER -> [exc |-> "PermissionError", v |-> PyNone]

(***************************************************************************)
(* The generic log-file analyzer.                                          *)
(***************************************************************************)
\* if matches:
HasMatchesAlways(n) == TRUE

HasMatches(n) == n > 0

\* count += 1
TallyOnce(count, n) == count + 1

\* count += len(matches)
Tally(count, n) == count + n

\* the body of the inner loop of _analyze_log_file for one pattern;
\* acc = [c, errors, warnings]
ApplyPattern(acc, category, pattern_type, pattern, content) ==
    LET n == FindAll(pattern, content)
        args == <<pattern.src, ToString(n)>>
    IN  IF ~HasMatches(n) THEN acc
        ELSE IF NameContains(pattern_type, "error")
        THEN [c |-> AddIssue(acc.c, category, Msg("Pattern '{}' found {} times", args), "error"),
              errors |-> Tally(acc.errors, n), warnings |-> acc.warnings]
        ELSE IF NameContains(pattern_type, "warning")
        THEN [c |-> AddIssue(acc.c, category, Msg("Pattern '{}' found {} times", args), "warning"),
              errors |-> acc.errors, warnings |-> Tally(acc.warnings, n)]
        ELSE IF NameContains(pattern_type, "success")
        THEN [acc EXCEPT !.c = AddInsight(@, category,
                                          Msg("Success pattern '{}' found {} times", args))]
        ELSE acc

\* for pattern in pattern_list
RECURSIVE ApplyPatternList(_, _, _, _, _)
ApplyPatternList(acc, category, pattern_type, pattern_list, content) ==
    IF pattern_list = <<>> THEN acc
    ELSE ApplyPatternList(ApplyPattern(acc, category, pattern_type, Head(pattern_list), content),
                          category, pattern_type, Tail(pattern_list), content)

\* for pattern_type, pattern_list in patterns.items()
RECURSIVE ApplyPatterns(_, _, _, _)
ApplyPatterns(acc, category, patterns, content) ==
    IF patterns = <<>> THEN acc
    ELSE ApplyPatterns(ApplyPatternList(acc, category, Head(patterns).type,
                                        Head(patterns).list, content),
                       category, Tail(patterns), content)

\* for timestamp in timestamps: self._add_timeline_event(...)
RECURSIVE AddTimelineEvents(_, _, _)
AddTimelineEvents(c, category, timestamps) ==
    IF timestamps = <<>> THEN c
    ELSE AddTimelineEvents(AddTimelineEvent(c, category, IsoFormat(Head(timestamps)), "Log entry"),
                           category, Tail(timestamps))

\* len(content.splitlines()) in place of len(content.split('\n'))
TotalLinesSplitlines(content) ==
    IF content # <<>> /\ content[Len(content)] = NL
    THEN Len(Split(content)) - 1
    ELSE IF content = <<>> THEN 0 ELSE Len(Split(content))

\* lines = content.split('\n'); total_lines = len(lines)
TotalLines(content) == Len(Split(content))

\* the last of the three metric writes left out
StoreMetricsNoWarnings(c, category, total_lines, error_count, warning_count) ==
    SetMetric(SetMetric(c, Key(category, <<"lines">>), PyInt(total_lines)),
              Key(category, <<"errors">>), PyInt(error_count))

\* the three metric writes that end the try block
StoreMetrics(c, category, total_lines, error_count, warning_count) ==
    LET c1 == SetMetric(c, Key(category, <<"lines">>), PyInt(total_lines))
        c2 == SetMetric(c1, Key(category, <<"errors">>), PyInt(error_count))
    IN  SetMetric(c2, Key(category, <<"warnings">>), PyInt(warning_count))

\* except Exception: pass
LogFileFailureSwallowed(c, log_file, category, err) == c

\* the failure is recorded with a third severity
LogFileFailureFatal(c, log_file, category, err) ==
    AddIssue(c, category, Msg("Failed to analyze log file {}: {}", <<log_file, err>>), "fatal")

\* the except Exception handler
LogFileFailure(c, log_file, category, err) ==
    AddIssue(c, category, Msg("Failed to analyze log file {}: {}", <<log_file, err>>), "error")

AnalyzeLogFile(c, log_file, file, category, patterns) ==
    LET rd == ReadIgnore(file)
        content == rd.content
        total_lines == TotalLines(content)
        acc == ApplyPatterns([c |-> c, errors |-> 0, warnings |-> 0], category, patterns, content)
        c1 == AddTimelineEvents(acc.c, category, ExtractTimestamps(content))
    IN  IF rd.exc # ""
        THEN LogFileFailure(c, log_file, category, rd.err)
        ELSE StoreMetrics(c1, category, total_lines, acc.errors, acc.warnings)

(***************************************************************************)
(* The pattern tables of the category analyzers.                           *)
(***************************************************************************)
PatternClass(type, list) == [type |-> type, list |-> list]

ContainerPatterns ==
    << PatternClass(<<"startup", "_", "patterns">>,
           << Pattern("macOS.*boot", <<"macos", "boot">>),
              Pattern("System.*ready", <<"system", "ready">>),
              Pattern("login.*window", <<"login", "window">>),
              Pattern("display.*manager", <<"display", "manager">>) >>),
       PatternClass(<<"error", "_", "patterns">>,
           << Pattern("kernel.*panic", <<"kernel", "panic">>),
              Pattern("segmentation.*fault", <<"segmentation", "fault">>),
              Pattern("panic:", <<"panic:">>),
              Pattern("fatal.*error", <<"fatal", "error">>),
              Pattern("core.*dump", <<"core", "dump">>) >>),
       PatternClass(<<"performance", "_", "patterns">>,
           << Pattern("CPU.*usage", <<"cpu", "usage">>),
              Pattern("memory.*pressure", <<"memory", "pressure">>),
              Pattern("disk.*I/O", <<"disk", "i/o">>),
              Pattern("network.*timeout", <<"network", "timeout">>) >>) >>

DockerPatterns ==
    << PatternClass(<<"startup", "_", "patterns">>,
           << Pattern("Creating.*macos", <<"creating", "macos">>),
              Pattern("Starting.*macos", <<"starting", "macos">>),
              Pattern("Container.*healthy", <<"container", "healthy">>) >>),
       PatternClass(<<"error", "_", "patterns">>,
           << Pattern("failed.*start", <<"failed", "start">>),
              Pattern("port.*already.*allocated", <<"port", "already", "allocated">>),
              Pattern("network.*error", <<"network", "error">>),
              Pattern("permission.*denied", <<"permission", "denied">>) >>),
       PatternClass(<<"warning", "_", "patterns">>,
           << Pattern("deprecated", <<"deprecated">>),
              Pattern("warning", <<"warning">>),
              Pattern("restart.*policy", <<"restart", "policy">>) >>) >>

MoleculePatterns ==
    << PatternClass(<<"success", "_", "patterns">>,
           << Pattern("PLAY RECAP.*ok=.*changed=.*unreachable=.*failed=0",
                      <<"play recap", "ok=", "changed=", "unreachable=", "failed=0">>),
              Pattern("converge.*completed", <<"converge", "completed">>),
              Pattern("verify.*completed", <<"verify", "completed">>),
              Pattern("Test.*successful", <<"test", "successful">>) >>),
       PatternClass(<<"failure", "_", "patterns">>,
           << Pattern("PLAY RECAP.*failed=[1-9]", <<"play recap", "failed=[1-9]">>),
              Pattern("TASK.*failed", <<"task", "failed">>),
              Pattern("fatal.*failed", <<"fatal", "failed">>),
              Pattern("FAILED! =>", <<"failed! =>">>),
              Pattern("AssertionError", <<"assertionerror">>) >>),
       PatternClass(<<"performance", "_", "patterns">>,
           << Pattern("elapsed.*time", <<"elapsed", "time">>),
              Pattern("task.*duration", <<"task", "duration">>),
              Pattern("playbook.*execution", <<"playbook", "execution">>) >>) >>

TailscaleServicePatterns ==
    << PatternClass(<<"error", "_", "patterns">>,
           << Pattern("error", <<"error">>),
              Pattern("failed.*connect", <<"failed", "connect">>),
              Pattern("authentication.*failed", <<"authentication", "failed">>),
              Pattern("network.*unreachable", <<"network", "unreachable">>) >>),
       PatternClass(<<"info", "_", "patterns">>,
           << Pattern("starting.*tailscaled", <<"starting", "tailscaled">>),
              Pattern("connected.*to.*control", <<"connected", "to", "control">>),
              Pattern("route.*added", <<"route", "added">>),
              Pattern("dns.*configured", <<"dns", "configured">>) >>) >>


(***************************************************************************)
(* Operations of Python values; each gives the exception it raises         *)
(* ("" for none) and its value.                                            *)
(***************************************************************************)
\* type(v).__name__
TypeName(v) ==
    CASE v.t = "none" -> "NoneType"
      [] v.t = "dict" -> "dict"
      [] v.t = "list" -> "list"
      [] OTHER -> v.t

\* str(v) inside an f-string
Str(v) ==
    CASE v.t = "none" -> "None"
      [] v.t = "int" -> ToString(v.n)
      [] v.t = "str" -> v.s
      [] v.t = "bool" -> (IF v.b THEN "True" ELSE "False")
      [] v.t = "list" -> "[...]"
      [] OTHER -> "{...}"

\* bool(v)
Truthy(v) ==
    CASE v.t = "none" -> FALSE
      [] v.t = "int" -> v.n # 0
      [] v.t = "str" -> v.s # ""
      [] v.t = "bool" -> v.b
      [] v.t = "list" -> v.l # <<>>
      [] OTHER -> DOMAIN v.f # {}

\* key in v
PyIn(key, v) ==
    CASE v.t = "dict" -> [exc |-> "", b |-> key \in DOMAIN v.f, err |-> ""]
      [] v.t = "list" -> [exc |-> "", b |-> \E i \in 1..Len(v.l) : v.l[i] = PyStr(key), err |-> ""]
      [] v.t = "str" -> [exc |-> "", b |-> v.s = key, err |-> ""]
      [] OTHER -> [exc |-> "TypeError", b |-> FALSE,
                   err |-> "argument of type '" \o TypeName(v) \o "' is not iterable"]

\* v[key]
PyIndex(v, key) ==
    IF v.t = "dict" /\ key \in DOMAIN v.f
    THEN [exc |-> "", v |-> v.f[key], err |-> ""]
    ELSE [exc |-> "TypeError", v |-> PyNone, err |-> "indices must be integers"]

\* v.get(key, default)
PyGet(v, key, default) ==
    IF v.t = "dict"
    THEN [exc |-> "", v |-> IF key \in DOMAIN v.f THEN v.f[key] ELSE default, err |-> ""]
    ELSE [exc |-> "AttributeError", v |-> PyNone,
          err |-> "'" \o TypeName(v) \o "' object has no attribute 'get'"]

\* v > 0
PyGtZero(v) ==
    CASE v.t = "int" -> [exc |-> "", b |-> v.n > 0, err |-> ""]
      [] v.t = "bool" -> [exc |-> "", b |-> v.b, err |-> ""]
      [] OTHER -> [exc |-> "TypeError", b |-> FALSE,
                   err |-> "'>' not supported between instances of '"
                           \o TypeName(v) \o "' and 'int'"]

\* len(v)
PyLen(v) ==
    CASE v.t = "dict" -> [exc |-> "", n |-> Cardinality(DOMAIN v.f), err |-> ""]
      [] v.t = "list" -> [exc |-> "", n |-> Len(v.l), err |-> ""]
      [] v.t = "str" -> [exc |-> "", n |-> Len(v.s), err |-> ""]
      [] OTHER -> [exc |-> "TypeError", n |-> 0,
                   err |-> "object of type '" \o TypeName(v) \o "' has no len()"]

EmptyDict == PyDict([k \in {} |-> PyNone])

(***************************************************************************)
(* Container inspection.                                                   *)
(***************************************************************************)
\* the block under  if 'State' in inspect_data
InspectState(c, state) ==
    LET status == PyGet(state, "Status", PyNone)
        c1 == IF status.v # PyStr("running")
              THEN AddIssue(c, <<"container">>,
                            Msg("Container not running: {}", <<Str(status.v)>>), "error")
              ELSE c
        health == PyGet(state, "Health", EmptyDict)
        hstatus == PyGet(health.v, "Status", PyNone)
        c2 == IF hstatus.v \notin {PyStr("healthy"), PyNone}
              THEN AddIssue(c1, <<"container">>,
                            Msg("Container unhealthy: {}", <<Str(hstatus.v)>>), "warning")
              ELSE c1
        restart_count == PyGet(state, "RestartCount", PyInt(0))
        positive == PyGtZero(restart_count.v)
        c3 == IF positive.b
              THEN AddIssue(c2, <<"container">>,
                            Msg("Container restarted {} times", <<Str(restart_count.v)>>),
                            "warning")
              ELSE c2
    IN  IF status.exc # "" THEN Raise(c, status.exc)
        ELSE IF hstatus.exc # "" THEN Raise(c1, hstatus.exc)
        ELSE IF positive.exc # "" THEN Raise(c2, positive.exc)
        ELSE Ok(c3)

\* the block under  if 'HostConfig' in inspect_data
InspectHostConfig(c, host_config) ==
    LET memory_limit == PyGet(host_config, "Memory", PyInt(0))
        cpu_limit == PyGet(host_config, "CpuQuota", PyInt(0))
        mpos == PyGtZero(memory_limit.v)
        c1 == IF mpos.b
              THEN SetMetric(c, <<"container", "_", "memory", "_", "limit">>, memory_limit.v)
              ELSE c
        cpos == PyGtZero(cpu_limit.v)
        c2 == IF cpos.b
              THEN SetMetric(c1, <<"container", "_", "cpu", "_", "limit">>, cpu_limit.v)
              ELSE c1
    IN  IF memory_limit.exc # "" THEN Raise(c, memory_limit.exc)
        ELSE IF mpos.exc # "" THEN Raise(c, mpos.exc)
        ELSE IF cpos.exc # "" THEN Raise(c1, cpos.exc)
        ELSE Ok(c2)

\* if key in inspect_data: ... inspect_data[key]: whether the block is
\* entered, with which value, and the exception of the test or the lookup
InspectLookup(inspect_data, key) ==
    LET has == PyIn(key, inspect_data)
        val == PyIndex(inspect_data, key)
    IN  IF has.exc # "" THEN [exc |-> has.exc, enter |-> FALSE, v |-> PyNone]
        ELSE IF ~has.b THEN [exc |-> "", enter |-> FALSE, v |-> PyNone]
        ELSE [exc |-> val.exc, enter |-> val.exc = "", v |-> val.v]

AnalyzeContainerInspection(c, inspect_data) ==
    LET s == InspectLookup(inspect_data, "State")
        r1 == IF s.enter THEN InspectState(c, s.v) ELSE [c |-> c, exc |-> s.exc]
        h == InspectLookup(inspect_data, "HostConfig")
    IN  IF r1.exc # "" THEN r1
        ELSE IF h.enter THEN InspectHostConfig(r1.c, h.v)
        ELSE [c |-> r1.c, exc |-> h.exc]


(***************************************************************************)
(* Mesh-network (Tailscale) status, text and JSON form.                    *)
(***************************************************************************)
\* 'phrase' in content, for a phrase that is one token
HasPhrase(content, phrase) == \E i \in 1..Len(content) : content[i] = phrase

\* the tokens matched by \d+\.\d+\.\d+\.\d+
DottedQuads == {"100.64.0.1", "100.64.0.2"}

AnalyzeTailscaleStatus(c, file) ==
    LET rd == ReadStrict(file)
        content == rd.content
        c1 == IF HasPhrase(content, "Logged out")
              THEN AddIssue(c, <<"tailscale">>, Msg("Tailscale is logged out", <<>>), "error")
              ELSE IF HasPhrase(content, "Tailscale is stopped")
              THEN AddIssue(c, <<"tailscale">>, Msg("Tailscale service is stopped", <<>>), "error")
              ELSE IF HasPhrase(content, "Connected to")
              THEN AddInsight(c, <<"tailscale">>, Msg("Tailscale is connected and running", <<>>))
              ELSE c
        peer_count == Len(SelectSeq(content, LAMBDA tok : tok \in DottedQuads))
    IN  IF rd.exc # ""
        THEN AddIssue(c, <<"tailscale">>,
                      Msg("Failed to analyze status file: {}", <<rd.err>>), "error")
        ELSE SetMetric(c1, <<"tailscale", "_", "peer", "_", "count">>, PyInt(peer_count))

\* the try block of _analyze_tailscale_json_status
TailscaleJsonBody(c, status_data) ==
    LET backend == PyGet(status_data, "BackendState", PyNone)
        c1 == IF backend.v # PyStr("Running")
              THEN AddIssue(c, <<"tailscale">>,
                            Msg("Tailscale backend state: {}", <<Str(backend.v)>>), "error")
              ELSE c
        auth == PyGet(status_data, "AuthEnabled", PyBool(FALSE))
        c2 == IF ~Truthy(auth.v)
              THEN AddIssue(c1, <<"tailscale">>,
                            Msg("Tailscale authentication not enabled", <<>>), "warning")
              ELSE c1
        version == PyGet(status_data, "Version", EmptyDict)
        long == PyGet(version.v, "Long", PyStr("unknown"))
        c3 == IF Truthy(version.v)
              THEN SetMetric(c2, <<"tailscale", "_", "version">>, long.v)
              ELSE c2
        peers == PyGet(status_data, "Peer", EmptyDict)
        peer_count == PyLen(peers.v)
        c4 == SetMetric(c3, <<"tailscale", "_", "peer", "_", "count">>, PyInt(peer_count.n))
        tailnet == PyGet(status_data, "CurrentTailnet", PyNone)
        c5 == IF Truthy(tailnet.v)
              THEN AddInsight(c4, <<"tailscale">>,
                              Msg("Connected to tailnet: {}", <<Str(tailnet.v)>>))
              ELSE c4
    IN  IF backend.exc # "" THEN [c |-> c, exc |-> backend.exc, err |-> backend.err]
        ELSE IF Truthy(version.v) /\ long.exc # "" THEN [c |-> c2, exc |-> long.exc, err |-> long.err]
        ELSE IF peer_count.exc # "" THEN [c |-> c3, exc |-> peer_count.exc, err |-> peer_count.err]
        ELSE [c |-> c5, exc |-> "", err |-> ""]

AnalyzeTailscaleJsonStatus(c, status_data) ==
    LET r == TailscaleJsonBody(c, status_data)
    IN  IF r.exc # ""
        THEN AddIssue(r.c, <<"tailscale">>,
                      Msg("Failed to analyze JSON status: {}", <<r.err>>), "error")
        ELSE r.c

(***************************************************************************)
(* System information files.                                               *)
(***************************************************************************)
\* ' '.join of the tokens
RECURSIVE JoinTokens(_)
JoinTokens(s) ==
    IF s = <<>> THEN ""
    ELSE IF Len(s) = 1 THEN s[1]
    ELSE s[1] \o " " \o JoinTokens(Tail(s))

\* re.search(label + r'\s*(.+)', content): group(1).strip() of the leftmost
\* match, <<>> when there is no match.  \s* skips newlines, (.+) is the rest
\* of the line and must not be empty.
SearchAfter(content, label) ==
    LET Rest(i) == LET skip == CHOOSE j \in (i + 1)..(Len(content) + 1) :
                                  /\ \A k \in (i + 1)..(j - 1) : content[k] = NL
                                  /\ (j = Len(content) + 1 \/ content[j] # NL)
                   IN  IF skip > Len(content) THEN <<>>
                       ELSE SubSeq(content, skip, LineEnd(content, skip))
        hits == {i \in 1..Len(content) : content[i] = label /\ Rest(i) # <<>>}
    IN  IF hits = {} THEN <<>>
        ELSE <<JoinTokens(Rest(CHOOSE i \in hits : \A j \in hits : i <= j))>>

\* one  if label in content: match = re.search(...)  block
SystemInfoMetric(c, content, label, key) ==
    LET found == SearchAfter(content, label)
    IN  IF HasPhrase(content, label) /\ found # <<>>
        THEN SetMetric(c, key, PyStr(found[1]))
        ELSE c

AnalyzeSystemInfo(c, file, system_type) ==
    LET rd == ReadStrict(file)
        content == rd.content
        c1 == SystemInfoMetric(c, content, "Memory usage:",
                               Key(system_type, <<"memory", "_", "info">>))
        c2 == SystemInfoMetric(c1, content, "Disk usage:",
                               Key(system_type, <<"disk", "_", "info">>))
        c3 == IF HasPhrase(content, "No space left")
              THEN AddIssue(c2, system_type, Msg("Disk space full or insufficient", <<>>), "error")
              ELSE IF HasPhrase(content, "Cannot allocate memory")
              THEN AddIssue(c2, system_type, Msg("Memory allocation issues", <<>>), "error")
              ELSE c2
    IN  IF rd.exc # ""
        THEN AddIssue(c, system_type,
                      Msg("Failed to analyze system info: {}", <<rd.err>>), "error")
        ELSE c3


(***************************************************************************)
(* The five category analyzers.  A directory is NoDir or a record of its   *)
(* files; an analyzer gives the collector it leaves and the exception that *)
(* escapes it.                                                             *)
(***************************************************************************)
NoDir == [k |-> "absent"]

\* ''.join of the name tokens
RECURSIVE ConcatTokens(_)
ConcatTokens(s) == IF s = <<>> THEN "" ELSE s[1] \o ConcatTokens(Tail(s))

\* the  if file.exists(): try: json.load ... except json.JSONDecodeError  block
\* up to the call of the payload analyzer: whether the payload was loaded, the
\* payload, the collector and the exception that escapes
LoadJsonFile(c, file, category, invalid) ==
    LET loaded == JsonLoad(file)
    IN  IF ~Exists(file) THEN [c |-> c, exc |-> "", loaded |-> FALSE, v |-> PyNone]
        ELSE IF loaded.exc = "JSONDecodeError"
        THEN [c |-> AddIssue(c, category, Msg(invalid, <<>>), "error"),
              exc |-> "", loaded |-> FALSE, v |-> PyNone]
        ELSE [c |-> c, exc |-> loaded.exc, loaded |-> loaded.exc = "", v |-> loaded.v]

AnalyzeContainerLogs(c, container_dir) ==
    IF ~Exists(container_dir) THEN Ok(c)
    ELSE LET c1 == IF Exists(container_dir.recent)
                   THEN AnalyzeLogFile(c, "container/container-recent.log",
                                       container_dir.recent, <<"container">>, ContainerPatterns)
                   ELSE c
             j == LoadJsonFile(c1, container_dir.inspect, <<"container">>,
                               "Invalid JSON in container inspection")
         IN  IF j.loaded THEN AnalyzeContainerInspection(j.c, j.v)
             ELSE [c |-> j.c, exc |-> j.exc]

\* the compose_log.exists() test left out
AnalyzeDockerLogsNoExists(c, docker_dir) ==
    IF ~Exists(docker_dir) THEN Ok(c)
    ELSE Ok(AnalyzeLogFile(c, "docker/docker-compose.log", docker_dir.compose,
                           <<"docker">>, DockerPatterns))

AnalyzeDockerLogs(c, docker_dir) ==
    IF ~Exists(docker_dir) THEN Ok(c)
    ELSE IF Exists(docker_dir.compose)
    THEN Ok(AnalyzeLogFile(c, "docker/docker-compose.log", docker_dir.compose,
                           <<"docker">>, DockerPatterns))
    ELSE Ok(c)

\* for log_file in molecule_dir.glob('*.log'), in the order of the listing
RECURSIVE AnalyzeMoleculeFiles(_, _)
AnalyzeMoleculeFiles(c, logs) ==
    IF logs = <<>> THEN c
    ELSE LET log_file == Head(logs)
             scenario_name == ReplaceDash(log_file.stem)
         IN  AnalyzeMoleculeFiles(
                 AnalyzeLogFile(c, "molecule/" \o ConcatTokens(log_file.stem) \o ".log",
                                log_file.file, <<"molecule", "_">> \o scenario_name,
                                MoleculePatterns),
                 Tail(logs))

\* globbed is the sequence that molecule_dir.glob('*.log') yields
AnalyzeMoleculeLogs(c, molecule_dir, globbed) ==
    IF ~Exists(molecule_dir) THEN Ok(c)
    ELSE Ok(AnalyzeMoleculeFiles(c, globbed))

AnalyzeTailscaleLogs(c, tailscale_dir) ==
    IF ~Exists(tailscale_dir) THEN Ok(c)
    ELSE LET c1 == IF Exists(tailscale_dir.status_txt)
                   THEN AnalyzeTailscaleStatus(c, tailscale_dir.status_txt)
                   ELSE c
             j == LoadJsonFile(c1, tailscale_dir.status_json, <<"tailscale">>,
                               "Invalid JSON in Tailscale status")
             r2 == IF j.loaded THEN Ok(AnalyzeTailscaleJsonStatus(j.c, j.v))
                   ELSE [c |-> j.c, exc |-> j.exc]
         IN  IF r2.exc # "" THEN r2
             ELSE IF Exists(tailscale_dir.journal)
             THEN Ok(AnalyzeLogFile(r2.c, "tailscale/tailscaled-journal.log",
                                    tailscale_dir.journal, <<"tailscale", "_", "service">>,
                                    TailscaleServicePatterns))
             ELSE r2

AnalyzeSystemLogs(c, system_dir) ==
    IF ~Exists(system_dir) THEN Ok(c)
    ELSE LET c1 == IF Exists(system_dir.host)
                   THEN AnalyzeSystemInfo(c, system_dir.host, <<"host">>)
                   ELSE c
         IN  IF Exists(system_dir.container)
             THEN Ok(AnalyzeSystemInfo(c1, system_dir.container, <<"container">>))
             ELSE Ok(c1)

(***************************************************************************)
(* Summary and recommendations.                                            *)
(***************************************************************************)
\* the severity filter left out
CountSeverityAll(iss, severity) == Len(iss)

\* sum(1 for issue in issues if issue['severity'] == severity)
CountSeverity(iss, severity) == Len(SelectSeq(iss, LAMBDA issue : issue.severity = severity))

GenerateSummary(c) ==
    LET total_errors == CountSeverity(c.issues, "error")
        total_warnings == CountSeverity(c.issues, "warning")
        c1 == SetMetric(c, <<"total", "_", "issues">>, PyInt(Len(c.issues)))
        c2 == SetMetric(c1, <<"total", "_", "errors">>, PyInt(total_errors))
        c3 == SetMetric(c2, <<"total", "_", "warnings">>, PyInt(total_warnings))
        c4 == SetMetric(c3, <<"total", "_", "insights">>, PyInt(Len(c.insights)))
    IN  SetMetric(c4, <<"analysis", "_", "timestamp">>, PyStr(Now))

Recommendation(priority, category, message, action) ==
    [priority |-> priority, category |-> category, message |-> message, action |-> action]

\* the threshold of the high-error-count rule
ErrorThreshold == 10

\* total_errors >= 10
HighErrorCountInclusive(total_errors) == total_errors >= ErrorThreshold

\* if total_errors > 10
HighErrorCount(total_errors) == total_errors > ErrorThreshold

\* the rules chained by elif: the first rule that fires suppresses the rest
RuleTableFirstOnly(r1, r2, r3, r4) ==
    IF r1 # <<>> THEN r1 ELSE IF r2 # <<>> THEN r2 ELSE IF r3 # <<>> THEN r3 ELSE r4

\* the four independent  if ...: recommendations.append(...)  statements, in order
RuleTable(r1, r2, r3, r4) == r1 \o r2 \o r3 \o r4

GenerateRecommendations(c) ==
    LET total_errors == IF <<"total", "_", "errors">> \in DOMAIN c.metrics
                        THEN c.metrics[<<"total", "_", "errors">>].n ELSE 0
        r1 == IF HighErrorCount(total_errors)
              THEN << Recommendation("high", "errors",
                        Msg("High number of errors detected ({}). Review error patterns and fix underlying issues.",
                            <<ToString(total_errors)>>),
                        "Investigate error patterns in log analysis") >>
              ELSE <<>>
        container_errors == Len(SelectSeq(c.issues, LAMBDA issue : issue.category = <<"container">>))
        r2 == IF container_errors > 0
              THEN << Recommendation("medium", "container",
                        Msg("Container issues detected ({}). Check container configuration and resources.",
                            <<ToString(container_errors)>>),
                        "Review container logs and resource allocation") >>
              ELSE <<>>
        tailscale_errors == Len(SelectSeq(c.issues, LAMBDA issue : issue.category = <<"tailscale">>))
        r3 == IF tailscale_errors > 0
              THEN << Recommendation("medium", "tailscale",
                        Msg("Tailscale issues detected ({}). Verify authentication and network configuration.",
                            <<ToString(tailscale_errors)>>),
                        "Check Tailscale status and configuration") >>
              ELSE <<>>
        molecule_errors == Len(SelectSeq(c.issues,
                                         LAMBDA issue : NameContains(issue.category, "molecule")))
        r4 == IF molecule_errors > 0
              THEN << Recommendation("high", "testing",
                        Msg("Test failures detected ({}). Review test configuration and role implementation.",
                            <<ToString(molecule_errors)>>),
                        "Debug Molecule test failures") >>
              ELSE <<>>
    IN  SetMetric(c, <<"recommendations">>, PyList(RuleTable(r1, r2, r3, r4)))


(***************************************************************************)
(* The run: analyze_all_logs as a sequence of steps.                       *)
(***************************************************************************)
\* the collector held by the analyzer object
Coll == Collector(issues, insights, metrics, timeline, writes)

\* analysis_results as created at the start of analyze_all_logs
EmptyResults ==
    [summary |-> EmptyMap, issues |-> <<>>, insights |-> <<>>, metrics |-> EmptyMap,
     timeline |-> <<>>, recommendations |-> <<>>]

\* analysis-summary.txt before it is written
NoDigest == [written |-> FALSE, totals |-> <<>>, issues |-> <<>>, recommendations |-> <<>>]

\* collected_logs = {} at the entry of collect_logs; trace is the log of the
\* sources handled and of the outcome of each
NoCollection == [pc |-> "loop", logs |-> [k \in {} |-> EmptyMap], exc |-> "", trace |-> <<>>]

\* collect_security_metrics of the quality-metrics script is not called
NoSecurity == [pc |-> "idle", dir |-> NoDir, metrics |-> EmptyMap, exc |-> ""]

\* the state after LogAnalyzer(log_dir, output_dir) and the entry of analyze_all_logs
InitAnalyzer ==
    /\ pc = "container"
    /\ issues = <<>>
    /\ insights = <<>>
    /\ metrics = EmptyMap
    /\ timeline = <<>>
    /\ writes = <<>>
    /\ results = EmptyResults
    /\ exc = ""
    /\ listing = <<>>
    /\ digest = NoDigest
    /\ run = 1
    /\ first = <<>>

\* an analysis run; the log-collection plugin is not called
InitRun ==
    /\ InitAnalyzer
    /\ sources = <<>>
    /\ collected = NoCollection
    /\ security = NoSecurity

\* an analyzer call returns (the next call follows) or its exception ends the run,
\* which then stays at the call that raised
Call(r, next) ==
    /\ exc = ""
    /\ issues' = r.c.issues
    /\ insights' = r.c.insights
    /\ metrics' = r.c.metrics
    /\ timeline' = r.c.timeline
    /\ writes' = r.c.writes
    /\ exc' = r.exc
    /\ pc' = IF r.exc = "" THEN next ELSE pc
    /\ UNCHANGED <<fs, results, digest, run, first, sources, collected, security>>

ContainerStep ==
    /\ pc = "container"
    /\ Call(AnalyzeContainerLogs(Coll, fs.container), "docker")
    /\ UNCHANGED listing

DockerStep ==
    /\ pc = "docker"
    /\ Call(AnalyzeDockerLogs(Coll, fs.docker), "molecule")
    /\ UNCHANGED listing

\* the rearrangements of a sequence
Orders(s) ==
    {[i \in 1..Len(s) |-> s[p[i]]] :
        p \in {q \in [1..Len(s) -> 1..Len(s)] : \A i, j \in 1..Len(s) : i # j => q[i] # q[j]}}

\* Path.glob yields the *.log files of the directory in an order that the
\* program does not fix
GlobOrders(molecule_dir) == IF Exists(molecule_dir) THEN Orders(molecule_dir.logs) ELSE {<<>>}

MoleculeStep ==
    /\ pc = "molecule"
    /\ \E globbed \in GlobOrders(fs.molecule) :
          /\ Call(AnalyzeMoleculeLogs(Coll, fs.molecule, globbed), "tailscale")
          /\ listing' = globbed

TailscaleStep ==
    /\ pc = "tailscale"
    /\ Call(AnalyzeTailscaleLogs(Coll, fs.tailscale), "system")
    /\ UNCHANGED listing

SystemStep ==
    /\ pc = "system"
    /\ Call(AnalyzeSystemLogs(Coll, fs.system), "summary")
    /\ UNCHANGED listing

SummaryStep ==
    /\ pc = "summary"
    /\ Call(Ok(GenerateSummary(Coll)), "recommendations")
    /\ UNCHANGED listing

RecommendationsStep ==
    /\ pc = "recommendations"
    /\ Call(Ok(GenerateRecommendations(Coll)), "compile")
    /\ UNCHANGED listing

\* the slice left out
FirstNWhole(s, n) == s

\* s[:n]
FirstN(s, n) == SubSeq(s, 1, IF Len(s) < n THEN Len(s) ELSE n)

\* str.upper() of a severity
Upper(severity) ==
    CASE severity = "error" -> "ERROR"
      [] severity = "warning" -> "WARNING"
      [] OTHER -> severity

\* the number of Issues listed by the text summary
TopIssues == 5

\* the number of recommendations listed by the text summary
KeyRecommendations == 3

\* m.get(key, default) on a metrics mapping
MetricGet(m, key, default) == IF key \in DOMAIN m THEN m[key] ELSE default

\* the content of analysis-summary.txt
TextSummary(res) ==
    LET m == res.metrics
        top == FirstN(res.issues, TopIssues)
        recs == FirstN(MetricGet(m, <<"recommendations">>, PyList(<<>>)).l, KeyRecommendations)
    IN  [written |-> TRUE,
         totals |-> << Str(MetricGet(m, <<"total", "_", "issues">>, PyInt(0))),
                       Str(MetricGet(m, <<"total", "_", "errors">>, PyInt(0))),
                       Str(MetricGet(m, <<"total", "_", "warnings">>, PyInt(0))),
                       Str(MetricGet(m, <<"total", "_", "insights">>, PyInt(0))) >>,
         issues |-> [i \in 1..Len(top) |->
                        [severity |-> Upper(top[i].severity), category |-> top[i].category,
                         message |-> top[i].message]],
         recommendations |-> [i \in 1..Len(recs) |-> recs[i].message]]

\* analysis_results.update({...}); the 'recommendations' entry is not among the
\* updated keys
CompileResults(res, c) ==
    [res EXCEPT !.issues = c.issues, !.insights = c.insights, !.metrics = c.metrics,
                !.timeline = c.timeline, !.summary = c.metrics]

\* the results are compiled, saved and returned
CompileStep ==
    /\ pc = "compile"
    /\ exc = ""
    /\ results' = CompileResults(results, Coll)
    /\ digest' = TextSummary(results')
    /\ pc' = "done"
    /\ UNCHANGED <<fs, issues, insights, metrics, timeline, writes, exc, listing, run, first,
                   sources, collected, security>>

Next ==
    \/ ContainerStep
    \/ DockerStep
    \/ MoleculeStep
    \/ TailscaleStep
    \/ SystemStep
    \/ SummaryStep
    \/ RecommendationsStep
    \/ CompileStep

(***************************************************************************)
(* Input snapshots of the run.                                             *)
(***************************************************************************)
\* a container log with a match of each of the five error patterns
NoisyContainerLog ==
    << "2024-01-15 10:30:45", "Kernel", "panic:", NL,
       "segmentation", "fault", NL,
       "fatal", "error", "core", "dump", NL >>

\* a compose log with two error and two warning patterns
NoisyComposeLog ==
    << "failed", "to", "start", NL, "WARNING", "deprecated", NL, "permission", "denied" >>

\* a scenario log with a failure and a success pattern
MoleculeLog == << "TASK", "failed", NL, "Test", "successful" >>

\* a service journal with two error patterns, one of them matched twice
NoisyJournal == << "error", "error", NL, "failed", "to", "connect" >>

Dict1(k1, v1) == PyDict([k \in {k1} |-> v1])
Dict2(k1, v1, k2, v2) == PyDict([k \in {k1, k2} |-> IF k = k1 THEN v1 ELSE v2])

\* {"State": {"Status": "exited", "RestartCount": 3}}
ExitedInspect == Dict1("State", Dict2("Status", PyStr("exited"), "RestartCount", PyInt(3)))
\* {"State": {"Status": "running", "Health": null}}
HealthNullInspect == Dict1("State", Dict2("Status", PyStr("running"), "Health", PyNone))

\* {"BackendState": "Running", "CurrentTailnet": "tailnet-1"}
AuthOffStatus == Dict2("BackendState", PyStr("Running"), "CurrentTailnet", PyStr("tailnet-1"))
\* [{}]
ArrayStatus == PyList(<<EmptyDict>>)

RunContainerDirs ==
    {NoDir} \cup
    [k : {"dir"},
     recent : {Absent, TextFile(NoisyContainerLog)},
     inspect : {Absent, MalformedJson, UndecodableJson,
                JsonFile(ExitedInspect), JsonFile(HealthNullInspect)}]

RunDockerDirs ==
    {NoDir} \cup [k : {"dir"}, compose : {Absent, Unreadable, TextFile(NoisyComposeLog)}]

\* the stems of the scenario logs
Stems == {<<"default">>, <<"a", "-", "b">>}

\* the stems in the order in which a snapshot names them
StemRank(stem) == IF stem = <<"default">> THEN 1 ELSE IF stem = <<"a", "-", "b">> THEN 2 ELSE 3

\* directory contents: sequences of distinct stems, each with its file
RECURSIVE Listings(_)
Listings(n) ==
    IF n = 0 THEN {<<>>}
    ELSE LET shorter == Listings(n - 1)
         IN  shorter \cup
             {Append(l, [stem |-> st, file |-> f]) :
                 l \in {x \in shorter : Len(x) = n - 1},
                 st \in Stems, f \in {Unreadable, TextFile(MoleculeLog)}}

Distinct(l) == \A i, j \in 1..Len(l) : i < j => StemRank(l[i].stem) < StemRank(l[j].stem)

RunMoleculeDirs ==
    {NoDir} \cup [k : {"dir"}, logs : {l \in Listings(MaxMoleculeLogs) : Distinct(l)}]

RunTailscaleDirs ==
    {NoDir} \cup
    [k : {"dir"},
     status_txt : {Absent, TextFile(<<"Logged out", NL>>)},
     status_json : {Absent, MalformedJson, UndecodableJson,
                    JsonFile(AuthOffStatus), JsonFile(ArrayStatus)},
     journal : {Absent, TextFile(NoisyJournal)}]

RunSystemDirs ==
    {NoDir} \cup
    [k : {"dir"},
     host : {Absent, TextFile(<<"No space left">>)},
     container : {TextFile(<<"Memory usage:", "8GB", NL, "No space left">>)}]

RunSnapshots ==
    [container : RunContainerDirs, docker : RunDockerDirs, molecule : RunMoleculeDirs,
     tailscale : RunTailscaleDirs, system : RunSystemDirs]

Init == fs \in RunSnapshots /\ InitRun

Spec == Init /\ [][Next]_vars


(***************************************************************************)
(* Input snapshots with one text log, its body enumerated exhaustively.    *)
(***************************************************************************)
\* all token sequences of length at most n over the alphabet
RECURSIVE Bodies(_, _)
Bodies(alphabet, n) ==
    IF n = 0 THEN {<<>>}
    ELSE LET shorter == Bodies(alphabet, n - 1)
         IN  shorter \cup {Append(b, tok) : b \in {x \in shorter : Len(x) = n - 1},
                                            tok \in alphabet}

ComposeAlphabet == {NL, "failed", "start", "WARNING", BadByte}

MoleculeAlphabet == {NL, "Test", "successful", "TASK", "failed"}

NoDirs == [container |-> NoDir, docker |-> NoDir, molecule |-> NoDir,
           tailscale |-> NoDir, system |-> NoDir]

LogSnapshots ==
    {[NoDirs EXCEPT !.docker = [k |-> "dir", compose |-> TextFile(b)]] :
        b \in Bodies(ComposeAlphabet, MaxLen)}
    \cup
    {[NoDirs EXCEPT !.molecule = [k |-> "dir",
                                  logs |-> <<[stem |-> <<"default">>, file |-> TextFile(b)]>>]] :
        b \in Bodies(MoleculeAlphabet, MaxLen)}

InitLog == fs \in LogSnapshots /\ InitRun

SpecLog == InitLog /\ [][Next]_vars


(***************************************************************************)
(* Positions of the run.                                                   *)
(***************************************************************************)
Steps == <<"container", "docker", "molecule", "tailscale", "system",
           "summary", "recommendations", "compile", "done">>

Pos(step) == CHOOSE i \in 1..Len(Steps) : Steps[i] = step

\* the call of the given step has returned
After(step) == Pos(pc) > Pos(step)

\* the recommendations written by _generate_recommendations
Recs == metrics[<<"recommendations">>].l

\* the Issues of the given severity
IssuesOfSeverity(severity) == {i \in 1..Len(issues) : issues[i].severity = severity}

\* the condition of each rule of the recommendation table, on the Issue sequence
RuleFires(category) ==
    CASE category = "errors" -> Cardinality(IssuesOfSeverity("error")) >= 11
      [] category = "container" -> \E i \in 1..Len(issues) : issues[i].category = <<"container">>
      [] category = "tailscale" -> \E i \in 1..Len(issues) : issues[i].category = <<"tailscale">>
      [] category = "testing" ->
             \E i \in 1..Len(issues) : \E j \in 1..Len(issues[i].category) :
                 issues[i].category[j] = "molecule"

RuleOrder == <<"errors", "container", "tailscale", "testing">>

RuleRank(category) == CHOOSE i \in 1..4 : RuleOrder[i] = category

RulePriority(category) == IF category \in {"errors", "testing"} THEN "high" ELSE "medium"

\* C1: once the recommendations are generated they are exactly the rules of
\* the table whose condition holds on the Issue sequence, each once, with its
\* priority, in the table order errors, container, tailscale, testing.
C1_RuleTableOrder ==
    After("recommendations") =>
        /\ \A k \in 1..Len(Recs) :
              /\ Recs[k].category \in {"errors", "container", "tailscale", "testing"}
              /\ Recs[k].priority = RulePriority(Recs[k].category)
              /\ RuleFires(Recs[k].category)
        /\ \A category \in {"errors", "container", "tailscale", "testing"} :
              RuleFires(category) => \E k \in 1..Len(Recs) : Recs[k].category = category
        /\ \A j, k \in 1..Len(Recs) :
              j < k => RuleRank(Recs[j].category) < RuleRank(Recs[k].category)

\* a finished run in which all four rules fired
C1_Witness ==
    /\ pc = "done"
    /\ Len(Recs) = 4
    /\ Recs[1].priority = "high" /\ Recs[2].priority = "medium" /\ Recs[4].priority = "high"

HasErrorsRecommendation ==
    \E k \in 1..Len(Recs) : Recs[k].category = "errors" /\ Recs[k].priority = "high"

\* C2: the high-priority 'errors' recommendation is present iff more than 10
\* Issues have severity error: present with 11, absent with 10.
C2_ErrorThreshold ==
    After("recommendations") =>
        LET n == Cardinality(IssuesOfSeverity("error"))
        IN  /\ metrics[<<"total", "_", "errors">>] = PyInt(n)
            /\ (n <= 10 => ~HasErrorsRecommendation)
            /\ (n >= 11 => HasErrorsRecommendation)

\* a finished run with exactly 11 error Issues and the recommendation
C2_Witness ==
    /\ pc = "done"
    /\ Cardinality(IssuesOfSeverity("error")) = 11
    /\ HasErrorsRecommendation

\* a finished run with exactly 10 error Issues
C2_WitnessTen ==
    /\ pc = "done"
    /\ Cardinality(IssuesOfSeverity("error")) = 10
    /\ ~HasErrorsRecommendation

\* C3: once the summary is generated, total_issues, total_errors,
\* total_warnings and total_insights are the length of the Issue sequence, the
\* numbers of error and of warning Issues and the length of the Insight
\* sequence; no total is written while a category analyzer has yet to run.
C3_SummaryTotals ==
    /\ After("summary") =>
          /\ metrics[<<"total", "_", "issues">>] = PyInt(Len(issues))
          /\ metrics[<<"total", "_", "errors">>] = PyInt(Cardinality(IssuesOfSeverity("error")))
          /\ metrics[<<"total", "_", "warnings">>] = PyInt(Cardinality(IssuesOfSeverity("warning")))
          /\ metrics[<<"total", "_", "insights">>] = PyInt(Len(insights))
    /\ ~After("system") =>
          \A facet \in {"issues", "errors", "warnings", "insights"} :
              <<"total", "_", facet>> \notin DOMAIN metrics

\* a finished run with error Issues, warning Issues and Insights from analyzers
\* up to the last one
C3_Witness ==
    /\ pc = "done"
    /\ IssuesOfSeverity("error") # {}
    /\ IssuesOfSeverity("warning") # {}
    /\ insights # <<>>
    /\ \E i \in 1..Len(issues) : issues[i].message.fmt = "Disk space full or insufficient"


(***************************************************************************)
(* Sources of the snapshot and what each of them can leave in the          *)
(* collector.                                                              *)
(***************************************************************************)
\* the file of a directory, Absent when the directory itself is absent
FileOf(dir, name) == IF Exists(fs[dir]) THEN fs[dir][name] ELSE Absent

\* the listing of the molecule directory
MoleculeListing == IF Exists(fs.molecule) THEN fs.molecule.logs ELSE <<>>

PatternFmts == {"Pattern '{}' found {} times", "Success pattern '{}' found {} times",
                "Failed to analyze log file {}: {}"}

\* nothing recorded under the category with one of the message formats, no
\* timeline event of the category when timed, and none of the metric keys
Silent(category, fmts, timed, keys) ==
    /\ \A i \in 1..Len(issues) :
          ~(issues[i].category = category /\ issues[i].message.fmt \in fmts)
    /\ \A i \in 1..Len(insights) :
          ~(insights[i].category = category /\ insights[i].message.fmt \in fmts)
    /\ timed => \A i \in 1..Len(timeline) : timeline[i].category # category
    /\ \A key \in keys : key \notin DOMAIN metrics

\* the three metric keys of a text log
LogKeys(category) == {Key(category, <<facet>>) : facet \in {"lines", "errors", "warnings"}}

\* a text log leaves nothing
LogSilent(category) == Silent(category, PatternFmts, TRUE, LogKeys(category))

InspectFmts == {"Invalid JSON in container inspection", "Container not running: {}",
                "Container unhealthy: {}", "Container restarted {} times"}

StatusTxtFmts == {"Tailscale is logged out", "Tailscale service is stopped",
                  "Tailscale is connected and running", "Failed to analyze status file: {}"}

StatusJsonFmts == {"Invalid JSON in Tailscale status", "Tailscale backend state: {}",
                   "Tailscale authentication not enabled", "Connected to tailnet: {}",
                   "Failed to analyze JSON status: {}"}

SystemFmts == {"Disk space full or insufficient", "Memory allocation issues",
               "Failed to analyze system info: {}"}

SystemKeys(system_type) ==
    {Key(system_type, <<"memory", "_", "info">>), Key(system_type, <<"disk", "_", "info">>)}

AllAbsent ==
    /\ \A dir \in {"container", "docker", "tailscale", "system"} : ~Exists(fs[dir])
    /\ MoleculeListing = <<>>

\* C4 (as claimed): no fault raised inside a category analyzer escapes it, so
\* no run is ended by an exception.
C4_NoFaultEscapes == exc = ""

\* C5: an absent source leaves no Issue, Insight, metric key or timeline event;
\* a run over a snapshot with every source absent ends with no Issue, all four
\* totals 0 and no recommendation.
C5_AbsentSourcesSilent ==
    /\ ~Exists(FileOf("container", "recent")) => LogSilent(<<"container">>)
    /\ ~Exists(FileOf("container", "inspect")) =>
          Silent(<<"container">>, InspectFmts, FALSE,
                 {<<"container", "_", "memory", "_", "limit">>,
                  <<"container", "_", "cpu", "_", "limit">>})
    /\ ~Exists(FileOf("docker", "compose")) => LogSilent(<<"docker">>)
    /\ MoleculeListing = <<>> =>
          /\ \A i \in 1..Len(issues) : ~NameContains(issues[i].category, "molecule")
          /\ \A i \in 1..Len(insights) : ~NameContains(insights[i].category, "molecule")
          /\ \A i \in 1..Len(timeline) : ~NameContains(timeline[i].category, "molecule")
          /\ \A key \in DOMAIN metrics : ~NameContains(key, "molecule")
    /\ ~Exists(FileOf("tailscale", "status_txt")) =>
          Silent(<<"tailscale">>, StatusTxtFmts, FALSE, {})
    /\ ~Exists(FileOf("tailscale", "status_json")) =>
          Silent(<<"tailscale">>, StatusJsonFmts, FALSE, {<<"tailscale", "_", "version">>})
    /\ (~Exists(FileOf("tailscale", "status_txt")) /\ ~Exists(FileOf("tailscale", "status_json")))
          => <<"tailscale", "_", "peer", "_", "count">> \notin DOMAIN metrics
    /\ ~Exists(FileOf("tailscale", "journal")) => LogSilent(<<"tailscale", "_", "service">>)
    /\ ~Exists(FileOf("system", "host")) => Silent(<<"host">>, SystemFmts, FALSE, SystemKeys(<<"host">>))
    /\ ~Exists(FileOf("system", "container")) =>
          Silent(<<"container">>, SystemFmts, FALSE, SystemKeys(<<"container">>))
    /\ AllAbsent =>
          /\ issues = <<>> /\ insights = <<>> /\ timeline = <<>>
          /\ exc = ""
          /\ After("summary") =>
                \A facet \in {"issues", "errors", "warnings", "insights"} :
                    metrics[<<"total", "_", facet>>] = PyInt(0)
          /\ After("recommendations") => Recs = <<>>

\* a finished run over a snapshot with every source absent
C5_Witness ==
    /\ pc = "done"
    /\ AllAbsent
    /\ results.issues = <<>>
    /\ results.metrics[<<"total", "_", "issues">>] = PyInt(0)

\* the step that reads each structured payload
NotWellFormed(file) == file.k \in {"malformed", "undecodable"}

\* the findings recorded under a category with one of the message formats
IssuesWith(category, fmts) ==
    {i \in 1..Len(issues) : issues[i].category = category /\ issues[i].message.fmt \in fmts}

\* C6 (as claimed): a container-inspect.json or tailscale-status.json that is
\* present but not well-formed leaves exactly one error Issue of its category
\* and nothing else, and the sources after it are still analyzed.
C6_MalformedPayloadOneIssue ==
    /\ (NotWellFormed(FileOf("container", "inspect")) /\ (After("container") \/ exc # "")) =>
          /\ exc = ""
          /\ Cardinality(IssuesWith(<<"container">>, InspectFmts)) = 1
          /\ \A i \in IssuesWith(<<"container">>, InspectFmts) : issues[i].severity = "error"
    /\ (NotWellFormed(FileOf("tailscale", "status_json"))
            /\ (After("tailscale") \/ (pc = "tailscale" /\ exc # ""))) =>
          /\ exc = ""
          /\ Cardinality(IssuesWith(<<"tailscale">>, StatusJsonFmts)) = 1
          /\ \A i \in IssuesWith(<<"tailscale">>, StatusJsonFmts) : issues[i].severity = "error"
          /\ <<"tailscale", "_", "version">> \notin DOMAIN metrics

\* the Issues recorded for the log file of the given path
FailuresOf(category, log_file) ==
    {i \in 1..Len(issues) :
        /\ issues[i].category = category
        /\ issues[i].message.fmt = "Failed to analyze log file {}: {}"
        /\ issues[i].message.args[1] = log_file}

MoleculePath(entry) == "molecule/" \o ConcatTokens(entry.stem) \o ".log"

MoleculeCategory(entry) ==
    <<"molecule", "_">> \o [i \in 1..Len(entry.stem) |->
                               IF entry.stem[i] = "-" THEN "_" ELSE entry.stem[i]]

\* C7: a log file the generic analyzer cannot read leaves exactly one Issue,
\* of severity error and of the file's category; the analyzer raises nothing
\* (no run ends in the docker or molecule call) and the run goes on.
C7_UnreadableLogOneIssue ==
    /\ (FileOf("docker", "compose") = Unreadable /\ After("docker")) =>
          /\ Cardinality(FailuresOf(<<"docker">>, "docker/docker-compose.log")) = 1
          /\ \A i \in 1..Len(issues) :
                issues[i].category = <<"docker">> =>
                    i \in FailuresOf(<<"docker">>, "docker/docker-compose.log")
                    /\ issues[i].severity = "error"
    /\ After("molecule") =>
          \A e \in 1..Len(MoleculeListing) :
              MoleculeListing[e].file = Unreadable =>
                  /\ Cardinality(FailuresOf(MoleculeCategory(MoleculeListing[e]),
                                            MoleculePath(MoleculeListing[e]))) = 1
                  /\ \A i \in FailuresOf(MoleculeCategory(MoleculeListing[e]),
                                         MoleculePath(MoleculeListing[e])) :
                        issues[i].severity = "error"
    /\ exc # "" => pc \notin {"docker", "molecule"}

\* a finished run with an unreadable compose log and an unreadable scenario
\* log, in which the later sources were analyzed
C7_Witness ==
    /\ pc = "done"
    /\ FileOf("docker", "compose") = Unreadable
    /\ \E e \in 1..Len(MoleculeListing) : MoleculeListing[e].file = Unreadable
    /\ \E i \in 1..Len(issues) : issues[i].category = <<"tailscale", "_", "service">>
    /\ Cardinality({i \in 1..Len(issues) :
                       issues[i].message.fmt = "Failed to analyze log file {}: {}"}) = 2


(***************************************************************************)
(* The text logs handed to the generic analyzer.                           *)
(***************************************************************************)
\* the text as read with errors='ignore'
Decoded(file) == SelectSeq(file.body, LAMBDA tok : tok # BadByte)

\* no pattern of any class of the table matches the content
NoMatch(patterns, content) ==
    \A t \in 1..Len(patterns) : \A p \in 1..Len(patterns[t].list) :
        FindAll(patterns[t].list[p], content) = 0

\* the source left no Issue and no Insight
NoFinding(category) ==
    /\ \A i \in 1..Len(issues) : issues[i].category # category
    /\ \A i \in 1..Len(insights) : insights[i].category # category

\* the scenario log of the single-log snapshots
DefaultLog == IF MoleculeListing = <<>> THEN Absent ELSE MoleculeListing[1].file

\* C8: a readable log body in which no pattern of any class matches gives
\* {category}_errors = 0 and {category}_warnings = 0 and leaves no Issue and no
\* Insight of its category.
C8_NoMatchNoFinding ==
    /\ (After("docker") /\ FileOf("docker", "compose").k = "text"
            /\ NoMatch(DockerPatterns, Decoded(FileOf("docker", "compose")))) =>
          /\ metrics[<<"docker", "_", "errors">>] = PyInt(0)
          /\ metrics[<<"docker", "_", "warnings">>] = PyInt(0)
          /\ NoFinding(<<"docker">>)
    /\ (After("molecule") /\ DefaultLog.k = "text"
            /\ NoMatch(MoleculePatterns, Decoded(DefaultLog))) =>
          /\ metrics[<<"molecule", "_", "default", "_", "errors">>] = PyInt(0)
          /\ metrics[<<"molecule", "_", "default", "_", "warnings">>] = PyInt(0)
          /\ NoFinding(<<"molecule", "_", "default">>)

\* a finished run over a compose log that holds the words of an error pattern
\* in an order that does not match
C8_Witness ==
    /\ pc = "done"
    /\ FileOf("docker", "compose").k = "text"
    /\ LET body == FileOf("docker", "compose").body
       IN  /\ \E i, j \in 1..Len(body) : body[i] = "failed" /\ body[j] = "start"
           /\ NoMatch(DockerPatterns, Decoded(FileOf("docker", "compose")))
    /\ results.metrics[<<"docker", "_", "errors">>] = PyInt(0)

\* the number of newline characters of a body
Newlines(body) == Cardinality({i \in 1..Len(body) : body[i] = NL})

\* C9: {category}_lines is the number of newline characters of the body plus
\* one: a trailing newline counts an empty last segment, the empty body gives 1.
C9_LinesAreSegments ==
    /\ (After("docker") /\ FileOf("docker", "compose").k = "text") =>
          metrics[<<"docker", "_", "lines">>]
              = PyInt(Newlines(FileOf("docker", "compose").body) + 1)
    /\ (After("molecule") /\ DefaultLog.k = "text") =>
          metrics[<<"molecule", "_", "default", "_", "lines">>]
              = PyInt(Newlines(DefaultLog.body) + 1)

\* a finished run over a compose log of three lines that ends with a newline,
\* counted as 4
C9_Witness ==
    /\ pc = "done"
    /\ FileOf("docker", "compose").k = "text"
    /\ LET body == FileOf("docker", "compose").body
       IN  Len(body) >= 3 /\ body[Len(body)] = NL /\ Newlines(body) = 3
    /\ results.metrics[<<"docker", "_", "lines">>] = PyInt(4)

\* the generic analyzer was called on the log (its caller reached the call)
Handed(dir, name, step) ==
    /\ Exists(FileOf(dir, name))
    /\ After(step) \/ (pc = step /\ exc # "" /\ name = "recent")

\* the three keys of the category hold non-negative integers
ThreeKeys(category) ==
    \A key \in LogKeys(category) :
        /\ key \in DOMAIN metrics
        /\ metrics[key].t = "int"
        /\ metrics[key].n >= 0

\* C10 (as claimed): every present log file handed to the generic analyzer has
\* its three keys {category}_lines, _errors, _warnings in the metrics, each a
\* non-negative integer.
C10_PresentLogThreeKeys ==
    /\ Handed("container", "recent", "container") => ThreeKeys(<<"container">>)
    /\ Handed("docker", "compose", "docker") => ThreeKeys(<<"docker">>)
    /\ Handed("tailscale", "journal", "tailscale") => ThreeKeys(<<"tailscale", "_", "service">>)
    /\ After("molecule") =>
          \A e \in 1..Len(MoleculeListing) : ThreeKeys(MoleculeCategory(MoleculeListing[e]))

\* C10 (amended): every log file handed to the generic analyzer and read by it
\* has its three keys in the metrics, each a non-negative integer.
C10_ReadLogThreeKeys ==
    /\ (Handed("container", "recent", "container") /\ FileOf("container", "recent").k = "text")
          => ThreeKeys(<<"container">>)
    /\ (Handed("docker", "compose", "docker") /\ FileOf("docker", "compose").k = "text")
          => ThreeKeys(<<"docker">>)
    /\ (Handed("tailscale", "journal", "tailscale") /\ FileOf("tailscale", "journal").k = "text")
          => ThreeKeys(<<"tailscale", "_", "service">>)
    /\ After("molecule") =>
          \A e \in 1..Len(MoleculeListing) :
              MoleculeListing[e].file.k = "text" =>
                  ThreeKeys(MoleculeCategory(MoleculeListing[e]))

\* a finished run in which all four kinds of text log were read
C10_Witness ==
    /\ pc = "done"
    /\ FileOf("container", "recent").k = "text"
    /\ FileOf("docker", "compose").k = "text"
    /\ FileOf("tailscale", "journal").k = "text"
    /\ \E e \in 1..Len(MoleculeListing) : MoleculeListing[e].file.k = "text"
    /\ results.metrics[<<"container", "_", "errors">>] = PyInt(5)
    /\ results.metrics[<<"tailscale", "_", "service", "_", "errors">>] = PyInt(3)


(***************************************************************************)
(* Input snapshots with one structured payload, its fields enumerated.     *)
(***************************************************************************)
\* the marker of a field that the object does not hold
Missing == [t |-> "missing"]

\* the JSON object that holds the fields of r that are not Missing
ObjOf(r) == PyDict([k \in {x \in DOMAIN r : r[x] # Missing} |-> r[k]])

StatePayloads ==
    {Missing, PyNone} \cup
    {ObjOf(r) : r \in [Status : {Missing, PyStr("running"), PyStr("exited")},
                       Health : {Missing, PyNone, EmptyDict,
                                 Dict1("Status", PyStr("healthy")),
                                 Dict1("Status", PyStr("unhealthy"))},
                       RestartCount : {Missing, PyInt(0), PyInt(3), PyStr("3")}]}

HostConfigPayloads ==
    {Missing} \cup
    {ObjOf(r) : r \in [Memory : {Missing, PyInt(0), PyInt(512), PyNone},
                       CpuQuota : {Missing, PyInt(0), PyInt(1000)}]}

InspectPayloads ==
    {PyNone, PyList(<<>>)} \cup
    {ObjOf(r) : r \in [State : StatePayloads, HostConfig : HostConfigPayloads]}

\* {"a": {}, "b": {}}
TwoPeers == Dict2("a", EmptyDict, "b", EmptyDict)

StatusPayloads ==
    {ObjOf(r) : r \in [BackendState : {Missing, PyStr("Running"), PyStr("Stopped")},
                       AuthEnabled : {Missing, PyBool(TRUE), PyBool(FALSE)},
                       Version : {Missing, EmptyDict, Dict1("Long", PyStr("1.56.1")),
                                  PyStr("1.56.1")},
                       Peer : {Missing, EmptyDict, TwoPeers, PyNone},
                       CurrentTailnet : {Missing, PyStr(""), PyStr("tailnet-1")}]}

PayloadSnapshots ==
    {[NoDirs EXCEPT !.container = [k |-> "dir", recent |-> Absent, inspect |-> JsonFile(v)]] :
        v \in InspectPayloads}
    \cup
    {[NoDirs EXCEPT !.tailscale = [k |-> "dir", status_txt |-> Absent,
                                   status_json |-> JsonFile(v), journal |-> Absent]] :
        v \in StatusPayloads}

InitPayload == fs \in PayloadSnapshots /\ InitRun

SpecPayload == InitPayload /\ [][Next]_vars

\* the call of the given step has returned or has raised
Acted(step) == After(step) \/ (pc = step /\ exc # "")

\* the field of a JSON value, Missing when the value does not hold it
Field(obj, key) == IF obj.t = "dict" /\ key \in DOMAIN obj.f THEN obj.f[key] ELSE Missing

\* the text of a field in a message, None for a field that is not there
Shown(v) == IF v = Missing THEN "None" ELSE Str(v)

\* the severities and messages of the Issues of a category, in order
Findings(category) ==
    LET own == SelectSeq(issues, LAMBDA issue : issue.category = category)
    IN  [i \in 1..Len(own) |-> [severity |-> own[i].severity, message |-> own[i].message]]

\* the messages of the Insights of a category, in order
Notes(category) ==
    LET own == SelectSeq(insights, LAMBDA insight : insight.category = category)
    IN  [i \in 1..Len(own) |-> own[i].message]

Finding(severity, fmt, args) == <<[severity |-> severity, message |-> Msg(fmt, args)]>>

\* the inspection payload of the snapshot, when it is an object with a State object
InspectPayload == FileOf("container", "inspect")

HasStateObject ==
    /\ InspectPayload.k = "json"
    /\ Field(InspectPayload.v, "State").t = "dict"

\* a positive number
Positive(v) == v.t = "int" /\ v.n > 0

\* the Issues that the inspection of a State object is claimed to leave
StateFindings(state) ==
    LET status == Field(state, "Status")
        health == Field(Field(state, "Health"), "Status")
        restarts == Field(state, "RestartCount")
    IN  (IF status # PyStr("running")
         THEN Finding("error", "Container not running: {}", <<Shown(status)>>) ELSE <<>>)
        \o (IF health # Missing /\ health # PyStr("healthy")
            THEN Finding("warning", "Container unhealthy: {}", <<Shown(health)>>) ELSE <<>>)
        \o (IF Positive(restarts)
            THEN Finding("warning", "Container restarted {} times", <<Shown(restarts)>>)
            ELSE <<>>)

LimitWritten(key, field) ==
    LET limit == Field(Field(InspectPayload.v, "HostConfig"), field)
    IN  IF Positive(limit) THEN key \in DOMAIN metrics /\ metrics[key] = limit
        ELSE key \notin DOMAIN metrics

\* C11 (as claimed): for an inspection payload that is an object with a State
\* object the container analyzer leaves the not-running error iff Status is
\* not 'running', the unhealthy warning iff Health.Status is present and not
\* 'healthy', the restart warning iff RestartCount is positive, nothing else,
\* and each resource limit metric iff its HostConfig field is present and
\* positive.
C11_InspectionFindings ==
    (HasStateObject /\ Acted("container")) =>
        /\ Findings(<<"container">>) = StateFindings(Field(InspectPayload.v, "State"))
        /\ insights = <<>>
        /\ LimitWritten(<<"container", "_", "memory", "_", "limit">>, "Memory")
        /\ LimitWritten(<<"container", "_", "cpu", "_", "limit">>, "CpuQuota")

\* the JSON status payload of the snapshot
StatusPayload == FileOf("tailscale", "status_json")

HasStatusObject == StatusPayload.k = "json" /\ StatusPayload.v.t = "dict"

\* the number of entries of a JSON value
Entries(v) ==
    CASE v.t = "dict" -> Cardinality(DOMAIN v.f)
      [] v.t = "list" -> Len(v.l)
      [] OTHER -> 0

\* the Issues that the analysis of a JSON status is claimed to leave
StatusFindings(status_data) ==
    LET backend == Field(status_data, "BackendState")
        auth == Field(status_data, "AuthEnabled")
    IN  (IF backend # PyStr("Running")
         THEN Finding("error", "Tailscale backend state: {}", <<Shown(backend)>>) ELSE <<>>)
        \o (IF auth # PyBool(TRUE)
            THEN Finding("warning", "Tailscale authentication not enabled", <<>>) ELSE <<>>)

\* the Insights that the analysis of a JSON status is claimed to leave
StatusNotes(status_data) ==
    LET tailnet == Field(status_data, "CurrentTailnet")
    IN  IF tailnet # Missing /\ Truthy(tailnet)
        THEN <<Msg("Connected to tailnet: {}", <<Shown(tailnet)>>)>> ELSE <<>>

\* C12 (as claimed): for a JSON status object the analyzer leaves the backend
\* error iff BackendState is not 'Running', the authentication warning iff
\* AuthEnabled is not true, the tailnet Insight iff CurrentTailnet is present
\* and non-empty, tailscale_peer_count equal to the number of entries of Peer,
\* and tailscale_version whenever Version is present.
C12_JsonStatusFindings ==
    (HasStatusObject /\ Acted("tailscale")) =>
        /\ Findings(<<"tailscale">>) = StatusFindings(StatusPayload.v)
        /\ Notes(<<"tailscale">>) = StatusNotes(StatusPayload.v)
        /\ <<"tailscale", "_", "peer", "_", "count">> \in DOMAIN metrics
        /\ metrics[<<"tailscale", "_", "peer", "_", "count">>]
              = PyInt(Entries(Field(StatusPayload.v, "Peer")))
        /\ Field(StatusPayload.v, "Version") # Missing
              => <<"tailscale", "_", "version">> \in DOMAIN metrics

\* no Issue of the category has the message format
NoIssueOf(category, fmt) ==
    \A i \in 1..Len(issues) : ~(issues[i].category = category /\ issues[i].message.fmt = fmt)

\* C18 (as claimed): a field that is absent from a structured payload leaves
\* no Issue: a State object without Status leaves no not-running Issue, a
\* JSON status without BackendState no backend Issue, and one without
\* AuthEnabled no authentication Issue.
C18_AbsentFieldNoIssue ==
    /\ (HasStateObject /\ Acted("container")
            /\ Field(Field(InspectPayload.v, "State"), "Status") = Missing)
          => NoIssueOf(<<"container">>, "Container not running: {}")
    /\ (HasStatusObject /\ Acted("tailscale")
            /\ Field(StatusPayload.v, "BackendState") = Missing)
          => NoIssueOf(<<"tailscale">>, "Tailscale backend state: {}")
    /\ (HasStatusObject /\ Acted("tailscale")
            /\ Field(StatusPayload.v, "AuthEnabled") = Missing)
          => NoIssueOf(<<"tailscale">>, "Tailscale authentication not enabled")


\* C14 (as claimed): the 'recommendations' entry of the returned result is the
\* sequence of Recommendations of the engine, non-empty when a rule fires.
C14_ResultRecommendations ==
    pc = "done" =>
        /\ results.recommendations = Recs
        /\ (\E category \in {"errors", "container", "tailscale", "testing"} : RuleFires(category))
              => results.recommendations # <<>>

Min(a, b) == IF a < b THEN a ELSE b

AllRulesFire == \A category \in {"errors", "container", "tailscale", "testing"} : RuleFires(category)

\* C15: the digest lists the first min(5, n) Issues of the result and the
\* first min(3, m) Recommendations of the run, in insertion order; when all
\* four rules fire it lists the errors, container and tailscale ones and
\* leaves the testing one out.
C15_DigestFirstN ==
    pc = "done" =>
        /\ digest.written
        /\ Len(digest.issues) = Min(5, Len(results.issues))
        /\ \A i \in 1..Len(digest.issues) :
              /\ digest.issues[i].category = results.issues[i].category
              /\ digest.issues[i].message = results.issues[i].message
              /\ digest.issues[i].severity = Upper(results.issues[i].severity)
        /\ Len(digest.recommendations) = Min(3, Len(Recs))
        /\ \A i \in 1..Len(digest.recommendations) : digest.recommendations[i] = Recs[i].message
        /\ AllRulesFire =>
              /\ Len(digest.recommendations) = 3
              /\ \A i \in 1..3 : Recs[i].category = RuleOrder[i]
              /\ Recs[4].category = "testing"
              /\ \A i \in 1..3 : digest.recommendations[i] # Recs[4].message

\* a finished run with more than five Issues and all four rules fired, whose
\* digest is cut to five Issues and three recommendations
C15_Witness ==
    /\ pc = "done"
    /\ AllRulesFire
    /\ Len(results.issues) > 5
    /\ Len(Recs) = 4
    /\ Len(digest.issues) = 5
    /\ Len(digest.recommendations) = 3

Scalar(v) == v.t \in {"int", "float", "str"}

\* C20 (as claimed): every value of the metrics mapping, and of the metrics
\* and summary of the result, is an integer, a float or a string after every
\* step of the run.
C20_MetricValuesScalar ==
    /\ \A key \in DOMAIN metrics : Scalar(metrics[key])
    /\ \A key \in DOMAIN results.metrics : Scalar(results.metrics[key])
    /\ \A key \in DOMAIN results.summary : Scalar(results.summary[key])


\* the severity convention of a pattern class name
ClassKind(pattern_type) ==
    IF NameContains(pattern_type, "error") THEN "error"
    ELSE IF NameContains(pattern_type, "warning") THEN "warning"
    ELSE IF NameContains(pattern_type, "success") THEN "success"
    ELSE "other"

\* the (class, pattern) pairs of a table
PairsOf(patterns) ==
    UNION {{<<t, p>> : p \in 1..Len(patterns[t].list)} : t \in 1..Len(patterns)}

\* the pairs of the given kind with at least one match in the content
Firing(patterns, kind, content) ==
    {tp \in PairsOf(patterns) :
        /\ ClassKind(patterns[tp[1]].type) = kind
        /\ FindAll(patterns[tp[1]].list[tp[2]], content) >= 1}

\* the sum of the match counts of a set of pairs
RECURSIVE MatchSum(_, _, _)
MatchSum(patterns, pairs, content) ==
    IF pairs = {} THEN 0
    ELSE LET tp == CHOOSE x \in pairs : TRUE
         IN  FindAll(patterns[tp[1]].list[tp[2]], content)
             + MatchSum(patterns, pairs \ {tp}, content)

\* the Issues of the category with the severity and the message of the pair
PatternIssues(category, severity, pattern, content) ==
    {i \in 1..Len(issues) :
        /\ issues[i].category = category
        /\ issues[i].severity = severity
        /\ issues[i].message = Msg("Pattern '{}' found {} times",
                                   <<pattern.src, ToString(FindAll(pattern, content))>>)}

PatternInsights(category, pattern, content) ==
    {i \in 1..Len(insights) :
        /\ insights[i].category = category
        /\ insights[i].message = Msg("Success pattern '{}' found {} times",
                                     <<pattern.src, ToString(FindAll(pattern, content))>>)}

\* what the generic analyzer leaves for a table of patterns and a body
Classified(category, patterns, content) ==
    /\ \A tp \in Firing(patterns, "error", content) :
          Cardinality(PatternIssues(category, "error", patterns[tp[1]].list[tp[2]], content)) = 1
    /\ \A tp \in Firing(patterns, "warning", content) :
          Cardinality(PatternIssues(category, "warning", patterns[tp[1]].list[tp[2]], content)) = 1
    /\ \A tp \in Firing(patterns, "success", content) :
          Cardinality(PatternInsights(category, patterns[tp[1]].list[tp[2]], content)) = 1
    /\ Cardinality({i \in 1..Len(issues) : issues[i].category = category})
          = Cardinality(Firing(patterns, "error", content))
            + Cardinality(Firing(patterns, "warning", content))
    /\ Cardinality({i \in 1..Len(insights) : insights[i].category = category})
          = Cardinality(Firing(patterns, "success", content))
    /\ metrics[Key(category, <<"errors">>)]
          = PyInt(MatchSum(patterns, Firing(patterns, "error", content), content))
    /\ metrics[Key(category, <<"warnings">>)]
          = PyInt(MatchSum(patterns, Firing(patterns, "warning", content), content))

\* C17: for every (class, pattern) pair with n >= 1 matches in the body, an
\* error class adds n to {category}_errors and leaves one error Issue, else a
\* warning class adds n to {category}_warnings and leaves one warning Issue,
\* else a success class leaves one Insight, and any other class leaves
\* nothing; {category}_errors is the sum of the match counts of the error
\* patterns.
C17_ClassifiedByName ==
    /\ (After("docker") /\ FileOf("docker", "compose").k = "text") =>
          Classified(<<"docker">>, DockerPatterns, Decoded(FileOf("docker", "compose")))
    /\ (After("molecule") /\ DefaultLog.k = "text") =>
          Classified(<<"molecule", "_", "default">>, MoleculePatterns, Decoded(DefaultLog))

\* a finished run over a compose log with one match of an error pattern and
\* two matches of a warning pattern: two Issues, errors 1, warnings 2
C17_Witness ==
    /\ pc = "done"
    /\ FileOf("docker", "compose").k = "text"
    /\ FileOf("docker", "compose").body = <<"failed", "start", "WARNING", "WARNING">>
    /\ Len(results.issues) = 2
    /\ results.issues[1].severity = "error" /\ results.issues[2].severity = "warning"
    /\ results.metrics[<<"docker", "_", "errors">>] = PyInt(1)
    /\ results.metrics[<<"docker", "_", "warnings">>] = PyInt(2)


\* C19 (as claimed): within one run no metric key is written more than once.
C19_KeysWrittenOnce == \A i, j \in 1..Len(writes) : i # j => writes[i] # writes[j]


(***************************************************************************)
(* Two runs over the same input, each on its own analyzer.                 *)
(***************************************************************************)
\* what the first run left when it ended
RunRecord ==
    [issues |-> issues, insights |-> insights, metrics |-> metrics, timeline |-> timeline,
     exc |-> exc, listing |-> listing]

\* the run has returned or has been ended by an exception
Ended == pc = "done" \/ exc # ""

\* the program is started again on the same log directory: a new LogAnalyzer
\* is constructed and analyze_all_logs is entered
NewAnalyzer ==
    /\ run = 1
    /\ Ended
    /\ first' = <<RunRecord>>
    /\ run' = 2
    /\ pc' = "container"
    /\ issues' = <<>>
    /\ insights' = <<>>
    /\ metrics' = EmptyMap
    /\ timeline' = <<>>
    /\ writes' = <<>>
    /\ results' = EmptyResults
    /\ exc' = ""
    /\ listing' = <<>>
    /\ digest' = NoDigest
    /\ UNCHANGED <<fs, sources, collected, security>>

NextTwice == Next \/ NewAnalyzer

ScenarioLog(stem, file) == [stem |-> stem, file |-> file]

TwiceStems == {<<"default">>, <<"a", "-", "b">>, <<"a", "_", "b">>}

TwiceFiles == {Unreadable, TextFile(MoleculeLog), TextFile(<<"Test", "successful">>)}

\* molecule directories with up to two scenario logs
TwiceMoleculeDirs ==
    {NoDir} \cup
    [k : {"dir"},
     logs : {<<>>} \cup {<<ScenarioLog(st, f)>> : st \in TwiceStems, f \in TwiceFiles}
            \cup {l \in {<<ScenarioLog(s1, f1), ScenarioLog(s2, f2)>> :
                           s1 \in TwiceStems, s2 \in TwiceStems,
                           f1 \in TwiceFiles, f2 \in TwiceFiles} : Distinct(l)}]

TwiceSnapshots ==
    [container : {NoDir, [k |-> "dir", recent |-> TextFile(NoisyContainerLog),
                          inspect |-> JsonFile(ExitedInspect)],
                  [k |-> "dir", recent |-> Absent, inspect |-> JsonFile(HealthNullInspect)]},
     docker : {NoDir, [k |-> "dir", compose |-> TextFile(NoisyComposeLog)]},
     molecule : TwiceMoleculeDirs,
     tailscale : {NoDir, [k |-> "dir", status_txt |-> TextFile(<<"Logged out", NL>>),
                          status_json |-> JsonFile(AuthOffStatus),
                          journal |-> TextFile(NoisyJournal)]},
     system : {NoDir}]

InitTwice == fs \in TwiceSnapshots /\ InitRun

SpecTwice == InitTwice /\ [][NextTwice]_vars

\* the Issues without their wall-clock field
IssueFacts(iss) ==
    [i \in 1..Len(iss) |-> [category |-> iss[i].category, message |-> iss[i].message,
                            severity |-> iss[i].severity]]

\* the Insights without their wall-clock field
InsightFacts(ins) ==
    [i \in 1..Len(ins) |-> [category |-> ins[i].category, message |-> ins[i].message]]

\* the metrics without the wall-clock entry
MetricFacts(m) == [key \in DOMAIN m \ {<<"analysis", "_", "timestamp">>} |-> m[key]]

\* the second run left what the first run left
RunsAgree ==
    /\ IssueFacts(issues) = IssueFacts(first[1].issues)
    /\ InsightFacts(insights) = InsightFacts(first[1].insights)
    /\ timeline = first[1].timeline
    /\ MetricFacts(metrics) = MetricFacts(first[1].metrics)

\* C13 (as claimed): two runs over the same input, each on a fresh analyzer,
\* leave the same Issue sequence, Insight sequence, timeline and metrics, the
\* wall-clock fields left aside.
C13_RunsAgree == (run = 2 /\ Ended) => RunsAgree


(***************************************************************************)
(* The log-collection plugin (collect_logs.py).                            *)
(***************************************************************************)
\* what the name datetime is bound to in the plugin module:
\* from datetime import datetime  binds it to the class
DatetimeBinding == "class"

\* the outcome of an expression or of a function: the value, or the
\* exception raised
Returned(v) == [exc |-> "", v |-> v]

Raised(e) == [exc |-> e, v |-> EmptyMap]

\* datetime.datetime.now().isoformat()
Timestamp ==
    IF DatetimeBinding = "module" THEN Returned(PyStr(Now)) ELSE Raised("AttributeError")

\* return {...fields, "timestamp": datetime.datetime.now().isoformat()}
ReturnStamped(fields) ==
    IF Timestamp.exc # "" THEN Raised(Timestamp.exc)
    ELSE Returned(Put(fields, "timestamp", Timestamp.v))

\* source.get(key, default)
SourceGet(source, key, default) == IF key \in DOMAIN source THEN source[key] ELSE default

\* the wait bound of the docker logs call and the default one of a command
DefaultTimeout == 30

\* how subprocess.run(..., timeout=timeout) can end: the process completes,
\* the call fails, the wait bound is exceeded, or, without a bound, the
\* process never ends
Outcomes(timeout) ==
    {"completed", "failed"} \cup (IF timeout = PyNone THEN {"hang"} ELSE {"timeout"})

\* the value or the exception of subprocess.run
SubprocessRun(outcome) ==
    CASE outcome = "completed" -> Returned([stdout |-> PyStr("<out>"), stderr |-> PyStr(""),
                                            return_code |-> PyInt(0)])
      [] outcome = "timeout" -> Raised("TimeoutExpired")
      [] OTHER -> Raised("FileNotFoundError")

\* str(e)
ErrorText(e) == "<" \o e \o ">"

CollectContainerLogs(source, outcome) ==
    LET result == SubprocessRun(outcome)
        try == IF result.exc # "" THEN result ELSE ReturnStamped(result.v)
    IN  IF try.exc = "" THEN try
        ELSE IF try.exc = "TimeoutExpired"
        THEN ReturnStamped([error |-> Msg("Timeout while collecting logs", <<>>)])
        ELSE ReturnStamped([error |-> Msg("Error collecting logs: {}", <<ErrorText(try.exc)>>)])

\* content.strip() on the tokens: the newlines at both ends are dropped
RECURSIVE Strip(_)
Strip(content) ==
    IF content = <<>> THEN content
    ELSE IF Head(content) = NL THEN Strip(Tail(content))
    ELSE IF content[Len(content)] = NL THEN Strip(SubSeq(content, 1, Len(content) - 1))
    ELSE content

\* all_lines[-lines:] if len(all_lines) > lines else all_lines
RecentLines(all_lines, lines) ==
    IF Len(all_lines) > lines
    THEN SubSeq(all_lines, Len(all_lines) - lines + 1, Len(all_lines))
    ELSE all_lines

\* "\n".join(recent_lines)
RECURSIVE JoinLines(_)
JoinLines(lines) ==
    IF lines = <<>> THEN <<>>
    ELSE IF Len(lines) = 1 THEN lines[1]
    ELSE lines[1] \o <<NL>> \o JoinLines(Tail(lines))

\* the default of source.get("lines", 100)
DefaultLines == 100

\* file is the file at source["path"]
CollectFileLogs(source, file) ==
    LET lines == SourceGet(source, "lines", DefaultLines)
        rd == ReadStrict(file)
        all_lines == Split(Strip(rd.content))
        try == IF ~Exists(file) THEN Raised("FileNotFoundError")
               ELSE IF rd.exc # "" THEN Raised(rd.exc)
               ELSE ReturnStamped([content |-> JoinLines(RecentLines(all_lines, lines)),
                                   total_lines |-> PyInt(Len(all_lines))])
    IN  IF try.exc = "" THEN try
        ELSE IF try.exc = "FileNotFoundError"
        THEN ReturnStamped([error |-> Msg("File not found: {}", <<source.path>>)])
        ELSE ReturnStamped([error |-> Msg("Error reading file: {}", <<ErrorText(try.exc)>>)])

CollectCommandLogs(source, outcome) ==
    LET command == SourceGet(source, "command", "")
        timeout == SourceGet(source, "timeout", PyInt(DefaultTimeout))
        result == SubprocessRun(outcome)
        try == IF result.exc # "" THEN result
               ELSE ReturnStamped(Put(result.v, "command", PyStr(command)))
    IN  IF try.exc = "" THEN try
        ELSE IF try.exc = "TimeoutExpired"
        THEN ReturnStamped([command |-> PyStr(command),
                            error |-> Msg("Command timed out after {} seconds",
                                          <<Str(timeout)>>)])
        ELSE ReturnStamped([command |-> PyStr(command),
                            error |-> Msg("Error executing command: {}",
                                          <<ErrorText(try.exc)>>)])

\* collected_logs[source["name"]] = <the record returned>, or the exception
\* of the call leaves collect_logs, or the call does not return
Store(source, outcome, r) ==
    LET handled == Append(collected.trace, [name |-> source.name, outcome |-> outcome])
    IN  /\ collected' =
              IF outcome = "hang"
              THEN [collected EXCEPT !.pc = "waiting", !.trace = handled]
              ELSE IF r.exc # ""
              THEN [collected EXCEPT !.pc = "raised", !.exc = r.exc, !.trace = handled]
              ELSE [collected EXCEPT !.logs = Put(@, source.name, r.v), !.trace = handled]
        /\ sources' = IF outcome # "hang" /\ r.exc = "" THEN Tail(sources) ELSE sources
        /\ UNCHANGED <<fs, pc, issues, insights, metrics, timeline, results, exc,
                       writes, listing, digest, run, first, security>>

InLoop == collected.pc = "loop" /\ sources # <<>>

CollectContainer ==
    /\ InLoop
    /\ Head(sources).type = "container"
    /\ \E outcome \in Outcomes(PyInt(DefaultTimeout)) :
          Store(Head(sources), outcome, CollectContainerLogs(Head(sources), outcome))

\* the files that source["path"] may name
PluginFiles == {Absent, Unreadable, TextFile(<<"a", NL, "b", NL>>)}

CollectFile ==
    /\ InLoop
    /\ Head(sources).type = "file"
    /\ \E file \in PluginFiles :
          Store(Head(sources), file.k, CollectFileLogs(Head(sources), file))

CollectCommand ==
    /\ InLoop
    /\ Head(sources).type = "command"
    /\ \E outcome \in Outcomes(SourceGet(Head(sources), "timeout", PyInt(DefaultTimeout))) :
          Store(Head(sources), outcome, CollectCommandLogs(Head(sources), outcome))

\* a source of another type is passed over
SkipSource ==
    /\ InLoop
    /\ Head(sources).type \notin {"container", "file", "command"}
    /\ sources' = Tail(sources)
    /\ UNCHANGED <<fs, pc, issues, insights, metrics, timeline, results, exc,
                   writes, listing, digest, run, first, collected, security>>

\* return collected_logs
ReturnCollected ==
    /\ collected.pc = "loop"
    /\ sources = <<>>
    /\ collected' = [collected EXCEPT !.pc = "returned"]
    /\ UNCHANGED <<fs, pc, issues, insights, metrics, timeline, results, exc,
                   writes, listing, digest, run, first, sources, security>>

NextCollect == CollectContainer \/ CollectFile \/ CollectCommand \/ SkipSource \/ ReturnCollected

\* the number of sources of a call
MaxSources == 2

\* the sources of a call, each named by its position
SourceKinds(name) ==
    {[type |-> "container", name |-> name, container_name |-> "macos-test-local", lines |-> 50],
     [type |-> "file", name |-> name, path |-> "/tmp/molecule.log", lines |-> 1],
     [type |-> "command", name |-> name, command |-> "uname -a"],
     [type |-> "command", name |-> name, command |-> "sleep 60", timeout |-> PyInt(5)],
     [type |-> "command", name |-> name, command |-> "tail -f log", timeout |-> PyNone],
     [type |-> "artifact", name |-> name]}

RECURSIVE SourceLists(_)
SourceLists(n) ==
    IF n = 0 THEN {<<>>}
    ELSE LET shorter == SourceLists(n - 1)
         IN  shorter \cup {Append(l, src) : l \in {x \in shorter : Len(x) = n - 1},
                                            src \in SourceKinds(ToString(n))}

InitCollect ==
    /\ fs = NoDirs
    /\ InitAnalyzer
    /\ sources \in SourceLists(MaxSources)
    /\ collected = NoCollection
    /\ security = NoSecurity

SpecCollect == InitCollect /\ [][NextCollect]_vars

TimeoutFmts == {"Timeout while collecting logs", "Command timed out after {} seconds"}

\* the record stored for the source is the timeout record
TimeoutRecord(name) ==
    /\ name \in DOMAIN collected.logs
    /\ "error" \in DOMAIN collected.logs[name]
    /\ collected.logs[name]["error"].fmt \in TimeoutFmts

\* C16 (as claimed): when the subprocess of a container or command source
\* exceeds its wait bound the function returns the record with the timeout
\* error and does not raise, and no call waits without end.
C16_TimeoutRecordReturned ==
    /\ \A i \in 1..Len(collected.trace) :
          collected.trace[i].outcome = "timeout" =>
              /\ collected.pc # "raised"
              /\ TimeoutRecord(collected.trace[i].name)
    /\ collected.pc # "waiting"


(***************************************************************************)
(* analyze_all_logs invoked a second time on the same analyzer object.     *)
(***************************************************************************)
\* the first call has returned and the method is entered again: the local
\* analysis_results is created anew, the instance attributes are whatever the
\* first call left
Reinvoke ==
    /\ run = 1
    /\ pc = "done"
    /\ first' = <<RunRecord>>
    /\ run' = 2
    /\ pc' = "container"
    /\ results' = EmptyResults
    /\ listing' = <<>>
    /\ UNCHANGED <<fs, issues, insights, metrics, timeline, writes, exc, digest,
                   sources, collected, security>>

NextAgain == Next \/ Reinvoke

SpecAgain == InitTwice /\ [][NextAgain]_vars

\* analyze_all_logs has just been entered
AtEntry == pc = "container" /\ exc = ""

\* C21 (as claimed): at the start of each invocation of analyze_all_logs the
\* Issue, Insight and timeline sequences and the metrics mapping are empty,
\* also for the second invocation on the same analyzer object.
C21_RunStartsEmpty ==
    AtEntry => issues = <<>> /\ insights = <<>> /\ timeline = <<>> /\ metrics = EmptyMap


(***************************************************************************)
(* Input snapshots with two text logs whose bodies are timestamp           *)
(* occurrences, enumerated exhaustively.                                   *)
(***************************************************************************)
\* the number of tokens of the two bodies together
MaxStamps == 3

\* occurrences of the three patterns: two that parse (one per format, the
\* second the earlier instant), one with no such month, a slash date, a
\* syslog date
StampAlphabet ==
    {"2024-01-15 10:30:45", "2024-01-15T09:00:00", "2024-13-45 10:30:45",
     "01/15/2024 10:30:45", "Jan 15 10:30:45"}

TimeSnapshots ==
    {[NoDirs EXCEPT !.container = [k |-> "dir", recent |-> TextFile(SubSeq(p[1], 1, p[2])),
                                   inspect |-> Absent],
                    !.docker = [k |-> "dir",
                                compose |-> TextFile(SubSeq(p[1], p[2] + 1, Len(p[1])))]] :
        p \in {q \in Bodies(StampAlphabet, MaxStamps) \X (0..MaxStamps) : q[2] <= Len(q[1])}}

InitTime == fs \in TimeSnapshots /\ InitRun

SpecTime == InitTime /\ [][Next]_vars

\* the log files analyzed by the first two steps, with the category of each
TimedSources ==
    <<[step |-> "container", category |-> <<"container">>, file |-> FileOf("container", "recent")],
      [step |-> "docker", category |-> <<"docker">>, file |-> FileOf("docker", "compose")]>>

\* the text of a log file
BodyOf(file) == IF file.k = "text" THEN file.body ELSE <<>>

\* the instant of a token under the first of the two formats that accepts it
Parsed(tok) ==
    IF Strptime(tok, FmtSpace) # NoInstant THEN Strptime(tok, FmtSpace) ELSE Strptime(tok, FmtT)

\* the tokens of the text that match one of the three patterns and parse
Occurrences(content) ==
    SelectSeq(content, LAMBDA tok : /\ \E k \in 1..3 : Matches(TimestampShapes[k], tok)
                                    /\ Parsed(tok) # NoInstant)

\* the TimelineEvents of a category, in timeline order
EventsOf(category) == SelectSeq(timeline, LAMBDA e : e.category = category)

\* the instant an event carries
InstantOf(e) == Strptime(e.timestamp, FmtT)

\* C22: once a log file is analyzed, its category holds one TimelineEvent
\* labelled 'Log entry' per timestamp occurrence of the text that parses,
\* duplicates included, and these events are in non-decreasing order of
\* their instants.
C22_EventPerParsedTimestamp ==
    \A s \in 1..Len(TimedSources) :
        After(TimedSources[s].step) =>
            LET ev == EventsOf(TimedSources[s].category)
                occ == Occurrences(BodyOf(TimedSources[s].file))
            IN  /\ Len(ev) = Len(occ)
                /\ \A i \in 1..Len(ev) : ev[i].event = "Log entry"
                /\ \A i \in 1..Len(occ) :
                      Cardinality({j \in 1..Len(ev) : ev[j].timestamp = IsoFormat(Parsed(occ[i]))})
                          = Cardinality({j \in 1..Len(occ) : Parsed(occ[j]) = Parsed(occ[i])})
                /\ \A i, j \in 1..Len(ev) : i < j => ~Before(InstantOf(ev[j]), InstantOf(ev[i]))

\* a text with a timestamp twice and an earlier one between them, analyzed
C22_Witness ==
    /\ After("docker")
    /\ BodyOf(FileOf("docker", "compose"))
           = <<"2024-01-15 10:30:45", "2024-01-15T09:00:00", "2024-01-15 10:30:45">>
    /\ Len(EventsOf(<<"docker">>)) = 3
    /\ EventsOf(<<"docker">>)[1].timestamp = "2024-01-15T09:00:00"

\* C23 (as claimed): the events of a category are in the order in which
\* their timestamps occur in the text.
C23_TextOrder ==
    \A s \in 1..Len(TimedSources) :
        After(TimedSources[s].step) =>
            LET ev == EventsOf(TimedSources[s].category)
                occ == Occurrences(BodyOf(TimedSources[s].file))
            IN  \A i \in 1..Len(ev) : i <= Len(occ) => ev[i].timestamp = IsoFormat(Parsed(occ[i]))

\* C23 (amended): the events of one log file are in ascending order of
\* their instants whatever the order of the text, and the timeline lists the
\* files in the order they are analyzed, the container log before the
\* compose log, so the timeline as a whole need not be chronological.
C23_SortedPerSource ==
    \A i, j \in 1..Len(timeline) :
        i < j =>
            IF timeline[i].category = timeline[j].category
            THEN ~Before(InstantOf(timeline[j]), InstantOf(timeline[i]))
            ELSE timeline[i].category = <<"container">> /\ timeline[j].category = <<"docker">>

\* the compose log carries an earlier timestamp on its later line, and the
\* container log a later one than it: sorted per file, not as a whole
C23_Witness ==
    /\ After("docker")
    /\ BodyOf(FileOf("container", "recent")) = <<"2024-01-15 10:30:45">>
    /\ BodyOf(FileOf("docker", "compose")) = <<"2024-01-15 10:30:45", "2024-01-15T09:00:00">>
    /\ Len(timeline) = 3
    /\ Before(InstantOf(timeline[2]), InstantOf(timeline[1]))
    /\ timeline[2].timestamp = "2024-01-15T09:00:00"

\* matches of the slash pattern and of the syslog pattern
SlashSamples ==
    {d \o " " \o t : d \in {"01/15/2024", "20/24/0115"}, t \in {"10:30:45", "00:00:00"}}

SyslogSamples ==
    {m \o " " \o d \o " 10:30:45" : m \in {"Jan", "202", "1_5"}, d \in {"15", "01"}}

\* C24: a TimelineEvent comes only from a match of the ISO-like pattern that
\* parses under the space-separated or the T-separated format, one event per
\* such match; every match of the slash pattern and of the syslog pattern
\* fails both parses, and leaves no event and no Issue.
C24_OnlyIsoParses ==
    /\ \A m \in SlashSamples : Matches(SlashShape, m) /\ Parsed(m) = NoInstant
    /\ \A m \in SyslogSamples : Matches(SyslogShape, m) /\ Parsed(m) = NoInstant
    /\ \A s \in 1..Len(TimedSources) :
          After(TimedSources[s].step) =>
              LET ev == EventsOf(TimedSources[s].category)
                  body == BodyOf(TimedSources[s].file)
                  iso == SelectSeq(body, LAMBDA tok : Matches(IsoShape, tok) /\ Parsed(tok) # NoInstant)
              IN  /\ Len(ev) = Len(iso)
                  /\ \A i \in 1..Len(ev) :
                        \E k \in 1..Len(iso) : ev[i].timestamp = IsoFormat(Parsed(iso[k]))
                  /\ \A i \in 1..Len(body) :
                        Matches(SlashShape \cup SyslogShape, body[i]) => Parsed(body[i]) = NoInstant
    /\ issues = <<>>

\* a syslog date, a slash date and a T-separated timestamp, analyzed: one event
C24_Witness ==
    /\ After("docker")
    /\ BodyOf(FileOf("docker", "compose"))
           = <<"Jan 15 10:30:45", "01/15/2024 10:30:45", "2024-01-15T09:00:00">>
    /\ Len(timeline) = 1
    /\ timeline[1].timestamp = "2024-01-15T09:00:00"
    /\ issues = <<>>


\* the first sequence is a prefix of the second
IsPrefix(s, t) == Len(s) <= Len(t) /\ SubSeq(t, 1, Len(s)) = s

\* C25: during a run the Issue sequence and the Insight sequence only grow
\* at the end: each is a prefix of what it is after any step, so no entry is
\* changed or removed.
C25_AppendOnly == [][IsPrefix(issues, issues') /\ IsPrefix(insights, insights')]_vars

\* Issues and Insights of several steps have accumulated
C25_Witness ==
    /\ After("system")
    /\ \E i, j \in 1..Len(issues) : issues[i].category # issues[j].category
    /\ \E i, j \in 1..Len(insights) : insights[i].category # insights[j].category


\* the category names of the specification; a molecule category is
\* molecule_ followed by the scenario name
NamedCategories ==
    {<<"container">>, <<"docker">>, <<"tailscale">>, <<"tailscale", "_", "service">>,
     <<"host">>, <<"container", "-", "system">>}

IsNamedCategory(category) ==
    \/ category \in NamedCategories
    \/ Len(category) > 2 /\ SubSeq(category, 1, 2) = <<"molecule", "_">>

\* the recommendation of the container rule is among those written
ContainerRecommended ==
    /\ <<"recommendations">> \in DOMAIN metrics
    /\ \E r \in 1..Len(Recs) : Recs[r].category = "container"

\* C26 (as claimed): every Issue and Insight carries one of the categories
\* container, docker, molecule_<scenario>, tailscale, tailscale_service, host,
\* container-system; the findings of system/container-system-info.txt are
\* tagged container-system, not container, so the container recommendation
\* is written only when an Issue of another origin has the category container.
C26_SystemFindingsApart ==
    /\ \A i \in 1..Len(issues) : IsNamedCategory(issues[i].category)
    /\ \A i \in 1..Len(insights) : IsNamedCategory(insights[i].category)
    /\ \A i \in 1..Len(issues) :
          issues[i].message.fmt \in SystemFmts => issues[i].category # <<"container">>
    /\ ContainerRecommended =>
          \E i \in 1..Len(issues) : /\ issues[i].category = <<"container">>
                                    /\ issues[i].message.fmt \notin SystemFmts


(***************************************************************************)
(* Input snapshots with a text status of the mesh network, its body        *)
(* enumerated exhaustively.                                                *)
(***************************************************************************)
StatusAlphabet == {NL, "Logged out", "Tailscale is stopped", "Connected to", "100.64.0.1", BadByte}

StatusSnapshots ==
    {[NoDirs EXCEPT !.tailscale = [k |-> "dir", status_txt |-> TextFile(b),
                                   status_json |-> Absent, journal |-> Absent]] :
        b \in Bodies(StatusAlphabet, MaxLen)}

InitStatus == fs \in StatusSnapshots /\ InitRun

SpecStatus == InitStatus /\ [][Next]_vars

\* the text of tailscale-status.txt, and whether it can be read as text
StatusText == BodyOf(FileOf("tailscale", "status_txt"))

StatusReadable ==
    FileOf("tailscale", "status_txt").k = "text" /\ ~HasPhrase(StatusText, BadByte)

\* an Issue of the category tailscale with the message and the severity
StatusIssue(fmt, severity) ==
    \E i \in 1..Len(issues) : /\ issues[i].category = <<"tailscale">>
                              /\ issues[i].message.fmt = fmt
                              /\ issues[i].severity = severity

StatusInsight(fmt) ==
    \E i \in 1..Len(insights) : /\ insights[i].category = <<"tailscale">>
                                /\ insights[i].message.fmt = fmt

\* C27 (as claimed): once a readable text status is analyzed, each of the
\* phrases 'Logged out', 'Tailscale is stopped' and 'Connected to' that
\* occurs in it is flagged (the first two as error Issues, the third as an
\* Insight), and tailscale_peer_count is the number of dotted-quad
\* occurrences.
C27_EachPhraseFlagged ==
    After("tailscale") /\ StatusReadable =>
        /\ HasPhrase(StatusText, "Logged out") <=> StatusIssue("Tailscale is logged out", "error")
        /\ HasPhrase(StatusText, "Tailscale is stopped")
               <=> StatusIssue("Tailscale service is stopped", "error")
        /\ HasPhrase(StatusText, "Connected to")
               <=> StatusInsight("Tailscale is connected and running")
        /\ MetricGet(metrics, <<"tailscale", "_", "peer", "_", "count">>, PyNone)
               = PyInt(Cardinality({i \in 1..Len(StatusText) : StatusText[i] \in DottedQuads}))


\* the integer stored under a metric key
Total(name) == metrics[<<"total", "_", name>>].n

\* C28: every Issue has the severity error or warning, so once the summary
\* is written total_errors + total_warnings = total_issues.
C28_SeveritiesPartition ==
    /\ \A i \in 1..Len(issues) : issues[i].severity \in {"error", "warning"}
    /\ After("summary") => Total("errors") + Total("warnings") = Total("issues")

\* a summary over Issues of both severities
C28_Witness ==
    /\ After("summary")
    /\ Total("errors") > 0
    /\ Total("warnings") > 0
    /\ Total("issues") = Len(issues)


\* the recommendation of the testing rule is among those written
TestingRecommended ==
    /\ <<"recommendations">> \in DOMAIN metrics
    /\ \E r \in 1..Len(Recs) : Recs[r].category = "testing"

\* C29: a molecule scenario log that can be read leaves no Issue, whatever
\* it contains, and its _errors and _warnings metrics are 0; the testing
\* recommendation is written only when some molecule log could not be read.
C29_ReadableMoleculeNoIssue ==
    /\ \A k \in 1..Len(MoleculeListing) :
          After("molecule") /\ MoleculeListing[k].file.k = "text" =>
              /\ \A i \in 1..Len(issues) : issues[i].category # MoleculeCategory(MoleculeListing[k])
              /\ metrics[Key(MoleculeCategory(MoleculeListing[k]), <<"errors">>)] = PyInt(0)
              /\ metrics[Key(MoleculeCategory(MoleculeListing[k]), <<"warnings">>)] = PyInt(0)
    /\ TestingRecommended => \E k \in 1..Len(MoleculeListing) : MoleculeListing[k].file.k # "text"

\* a scenario log with a failed task, analyzed in a run that has Issues of
\* other categories: an Insight for its success line, no testing recommendation
C29_Witness ==
    /\ After("recommendations")
    /\ Len(MoleculeListing) = 1
    /\ MoleculeListing[1].file = TextFile(MoleculeLog)
    /\ FindAll(MoleculePatterns[2].list[2], MoleculeLog) > 0
    /\ \E i \in 1..Len(insights) : insights[i].category = MoleculeCategory(MoleculeListing[1])
    /\ issues # <<>>
    /\ ~TestingRecommended


(***************************************************************************)
(* The security metrics of the quality-metrics script                      *)
(* (QualityMetricsCollector.collect_security_metrics).  The text of a      *)
(* report is a string, read character by character.                        *)
(***************************************************************************)
\* the metrics dictionary the function starts from
InitialSecurityMetrics ==
    [overall_score |-> 0,
     scan_status |-> "not_run",
     vulnerabilities |-> [critical |-> 0, high |-> 0, medium |-> 0, low |-> 0, info |-> 0],
     tools |-> [checkov |-> [status |-> "not_run", issues |-> 0],
                bandit |-> [status |-> "not_run", issues |-> 0],
                safety |-> [status |-> "not_run", issues |-> 0],
                secrets |-> [status |-> "not_run", secrets_found |-> 0]]]

\* a directory where a report file is expected
Directory == [k |-> "directory"]

\* Path.is_file()
IsFile(file) == file.k \notin {"absent", "directory"}

\* open(path, 'r').read() of a report whose text is a string
ReadText(file) ==
    CASE file.k = "text" -> [exc |-> "", content |-> file.body]
      [] file.k = "undecodable" -> [exc |-> "UnicodeDecodeError", content |-> ""]
      [] OTHER -> [exc |-> "PermissionError", content |-> ""]

\* metrics["vulnerabilities"][level] += n
Count(m, level, n) == [m EXCEPT !.vulnerabilities[level] = @ + n]

UpperLetters == "ABCDEFGHIJKLMNOPQRSTUVWXYZ"
LowerLetters == "abcdefghijklmnopqrstuvwxyz"

\* the letter of the second alphabet at the place ch has in the first
Fold(ch, from, to) ==
    IF \E i \in 1..Len(from) : Char(from, i) = ch
    THEN Char(to, CHOOSE i \in 1..Len(from) : Char(from, i) = ch)
    ELSE ch

\* str.lower()
RECURSIVE StrLower(_)
StrLower(text) ==
    IF text = "" THEN ""
    ELSE Fold(Char(text, 1), UpperLetters, LowerLetters) \o StrLower(SubSeq(text, 2, Len(text)))

\* str.upper()
RECURSIVE StrUpper(_)
StrUpper(text) ==
    IF text = "" THEN ""
    ELSE Fold(Char(text, 1), LowerLetters, UpperLetters) \o StrUpper(SubSeq(text, 2, Len(text)))

\* the phrase stands at position i of the text
StartsAt(text, i, phrase) ==
    /\ i + Len(phrase) - 1 <= Len(text)
    /\ SubSeq(text, i, i + Len(phrase) - 1) = phrase

\* phrase in text
Contains(text, phrase) == \E i \in 1..Len(text) : StartsAt(text, i, phrase)

\* the elements a for loop draws from a JSON value that has a length: those
\* of a list, the keys of an object, the characters of a string (the last
\* two are strings)
Items(v) == IF v.t = "list" THEN v.l ELSE [i \in 1..PyLen(v).n |-> PyStr("<item>")]

\* for result in failed_controls: the severity counted when it is a key of
\* metrics["vulnerabilities"]
RECURSIVE CountCheckov(_, _)
CountCheckov(m, items) ==
    IF items = <<>> THEN [m |-> m, exc |-> ""]
    ELSE LET got == PyGet(Head(items), "severity", PyStr("unknown"))
         IN  IF got.exc # "" THEN [m |-> m, exc |-> got.exc]
             ELSE IF got.v.t # "str" THEN [m |-> m, exc |-> "AttributeError"]
             ELSE LET severity == StrLower(got.v.s)
                  IN  CountCheckov(IF severity \in DOMAIN m.vulnerabilities
                                   THEN Count(m, severity, 1) ELSE m,
                                   Tail(items))

\* the checkov block: json.JSONDecodeError is handled, any other exception
\* leaves the function
CheckovReport(m, file) ==
    LET loaded == JsonLoad(file)
        section == PyGet(loaded.v, "results", EmptyDict)
        failed == PyGet(section.v, "failed_controls", PyList(<<>>))
        issues_ == PyLen(failed.v)
        m1 == [m EXCEPT !.tools.checkov = [status |-> "completed", issues |-> issues_.n]]
    IN  IF ~IsFile(file) THEN [m |-> m, exc |-> ""]
        ELSE IF loaded.exc = "JSONDecodeError" THEN [m |-> m, exc |-> ""]
        ELSE IF loaded.exc # "" THEN [m |-> m, exc |-> loaded.exc]
        ELSE IF section.exc # "" THEN [m |-> m, exc |-> section.exc]
        ELSE IF failed.exc # "" THEN [m |-> m, exc |-> failed.exc]
        ELSE IF issues_.exc # "" THEN [m |-> m, exc |-> issues_.exc]
        ELSE CountCheckov(m1, Items(failed.v))

\* for result in bandit_data.get("results", []): HIGH and MEDIUM are counted
\* as such, every other severity as low
RECURSIVE CountBandit(_, _)
CountBandit(m, items) ==
    IF items = <<>> THEN [m |-> m, exc |-> ""]
    ELSE LET got == PyGet(Head(items), "issue_severity", PyStr("LOW"))
         IN  IF got.exc # "" THEN [m |-> m, exc |-> got.exc]
             ELSE IF got.v.t # "str" THEN [m |-> m, exc |-> "AttributeError"]
             ELSE LET issue_severity == StrUpper(got.v.s)
                  IN  CountBandit(IF issue_severity = "HIGH" THEN Count(m, "high", 1)
                                  ELSE IF issue_severity = "MEDIUM" THEN Count(m, "medium", 1)
                                  ELSE Count(m, "low", 1),
                                  Tail(items))

BanditReport(m, file) ==
    LET loaded == JsonLoad(file)
        section == PyGet(loaded.v, "results", PyList(<<>>))
        issues_ == PyLen(section.v)
        m1 == [m EXCEPT !.tools.bandit = [status |-> "completed", issues |-> issues_.n]]
    IN  IF ~IsFile(file) THEN [m |-> m, exc |-> ""]
        ELSE IF loaded.exc = "JSONDecodeError" THEN [m |-> m, exc |-> ""]
        ELSE IF loaded.exc # "" THEN [m |-> m, exc |-> loaded.exc]
        ELSE IF section.exc # "" THEN [m |-> m, exc |-> section.exc]
        ELSE IF issues_.exc # "" THEN [m |-> m, exc |-> issues_.exc]
        ELSE CountBandit(m1, Items(section.v))

\* \s
IsSpace(ch) == ch \in {" ", "\t", "\n", "\r"}

\* the last position of the run of digits, or of white space, that starts at i
DigitRun(text, i) ==
    CHOOSE j \in i..Len(text) :
        /\ \A k \in i..j : IsDigit(Char(text, k))
        /\ j = Len(text) \/ ~IsDigit(Char(text, j + 1))

SpaceRun(text, i) ==
    CHOOSE j \in i..Len(text) :
        /\ \A k \in i..j : IsSpace(Char(text, k))
        /\ j = Len(text) \/ ~IsSpace(Char(text, j + 1))

\* (\d+)\s+vulnerabilities? matches from position i
VulnerabilitiesAt(text, i) ==
    /\ IsDigit(Char(text, i))
    /\ DigitRun(text, i) < Len(text)
    /\ IsSpace(Char(text, DigitRun(text, i) + 1))
    /\ StartsAt(text, SpaceRun(text, DigitRun(text, i) + 1) + 1, "vulnerabilitie")

\* re.search(r"(\d+)\s+vulnerabilities?", content): int(match.group(1)) of
\* the first match, -1 when there is none
SearchVulnerabilities(content) ==
    LET starts == {i \in 1..Len(content) : VulnerabilitiesAt(content, i)}
        first_ == CHOOSE i \in starts : \A j \in starts : i <= j
    IN  IF starts = {} THEN -1 ELSE Num(content, first_, DigitRun(content, first_))

\* the safety block: OSError is handled, a decoding error leaves the function
SafetyReport(m, file) ==
    LET rd == ReadText(file)
        found == SearchVulnerabilities(rd.content)
        m1 == [m EXCEPT !.tools.safety.status = "completed"]
    IN  IF ~IsFile(file) THEN [m |-> m, exc |-> ""]
        ELSE IF rd.exc = "PermissionError" THEN [m |-> m, exc |-> ""]
        ELSE IF rd.exc # "" THEN [m |-> m, exc |-> rd.exc]
        ELSE IF Contains(rd.content, "0 vulnerabilities reported")
        THEN [m |-> [m1 EXCEPT !.tools.safety.issues = 0], exc |-> ""]
        ELSE IF found # -1
        THEN [m |-> Count([m1 EXCEPT !.tools.safety.issues = found], "medium", found),
              exc |-> ""]
        ELSE [m |-> m1, exc |-> ""]

\* line.strip() is not empty
NotBlank(line) == \E i \in 1..Len(line) : ~IsSpace(Char(line, i))

\* the secrets block; the text is the sequence of its lines
SecretsReport(m, file) ==
    LET rd == IF file.k = "text" THEN [exc |-> "", content |-> file.body]
              ELSE [exc |-> ReadText(file).exc, content |-> <<>>]
        lines == SelectSeq(rd.content, LAMBDA line : NotBlank(line))
        non_cert_lines == SelectSeq(lines, LAMBDA line : /\ ~Contains(line, "certifi")
                                                         /\ ~Contains(line, ".pem"))
        m1 == [m EXCEPT !.tools.secrets = [status |-> "completed",
                                           secrets_found |-> Len(non_cert_lines)]]
    IN  IF ~IsFile(file) THEN [m |-> m, exc |-> ""]
        ELSE IF rd.exc = "PermissionError" THEN [m |-> m, exc |-> ""]
        ELSE IF rd.exc # "" THEN [m |-> m, exc |-> rd.exc]
        ELSE IF Len(non_cert_lines) > 0
        THEN [m |-> Count(m1, "critical", Len(non_cert_lines)), exc |-> ""]
        ELSE [m |-> m1, exc |-> ""]

\* each penalty is multiplied by the count
OverallScorePerFinding(vulnerabilities) ==
    Max({0, 100 - 40 * vulnerabilities.critical - 20 * vulnerabilities.high
                - 10 * vulnerabilities.medium - 5 * vulnerabilities.low})

\* the scoring at the end of the  if security_dir.exists():  block
OverallScore(vulnerabilities) ==
    LET s0 == 100
        s1 == IF vulnerabilities.critical > 0 THEN s0 - 40 ELSE s0
        s2 == IF vulnerabilities.high > 0 THEN s1 - 20 ELSE s1
        s3 == IF vulnerabilities.medium > 0 THEN s2 - 10 ELSE s2
        s4 == IF vulnerabilities.low > 0 THEN s3 - 5 ELSE s3
    IN  Max({0, s4})

\* the steps of collect_security_metrics leave the analyzer alone
SecurityOnly ==
    UNCHANGED <<fs, pc, issues, insights, metrics, timeline, results, exc,
                writes, listing, digest, run, first, sources, collected>>

\* a block returns (the next block follows) or its exception leaves the function
SecurityCall(r, next) ==
    /\ security' = [security EXCEPT !.metrics = r.m,
                                    !.exc = r.exc,
                                    !.pc = IF r.exc = "" THEN next ELSE "raised"]
    /\ SecurityOnly

\* metrics = {...}; if security_dir.exists(): scan_status = "reports_available"
SecurityEntry ==
    /\ security.pc = "entry"
    /\ IF Exists(security.dir)
       THEN SecurityCall([m |-> [InitialSecurityMetrics EXCEPT !.scan_status = "reports_available"],
                          exc |-> ""], "checkov")
       ELSE SecurityCall([m |-> InitialSecurityMetrics, exc |-> ""], "returned")

CheckovStep ==
    /\ security.pc = "checkov"
    /\ SecurityCall(CheckovReport(security.metrics, security.dir.checkov), "bandit")

BanditStep ==
    /\ security.pc = "bandit"
    /\ SecurityCall(BanditReport(security.metrics, security.dir.bandit), "safety")

SafetyStep ==
    /\ security.pc = "safety"
    /\ SecurityCall(SafetyReport(security.metrics, security.dir.safety), "secrets")

SecretsStep ==
    /\ security.pc = "secrets"
    /\ SecurityCall(SecretsReport(security.metrics, security.dir.secrets), "score")

\* metrics["overall_score"] = max(0, total_score); return metrics
ScoreStep ==
    /\ security.pc = "score"
    /\ SecurityCall([m |-> [security.metrics EXCEPT
                               !.overall_score = OverallScore(security.metrics.vulnerabilities)],
                     exc |-> ""], "returned")

NextSecurity ==
    SecurityEntry \/ CheckovStep \/ BanditStep \/ SafetyStep \/ SecretsStep \/ ScoreStep

\* the number of lines of secret-files.txt
MaxSecrets == 2

\* {"results": {"failed_controls": [{"severity": s}, ...]}}; a severity of
\* Missing leaves the key out
Control(severity) == IF severity = Missing THEN EmptyDict ELSE Dict1("severity", severity)

FailedControls(severities) ==
    Dict1("results", Dict1("failed_controls",
                           PyList([i \in 1..Len(severities) |-> Control(severities[i])])))

CheckovReports ==
    {Absent, Directory, MalformedJson, UndecodableJson,
     JsonFile(PyList(<<>>)),
     JsonFile(EmptyDict),
     JsonFile(FailedControls(<<PyStr("CRITICAL")>>)),
     JsonFile(FailedControls(<<PyStr("Low"), PyStr("info"), Missing>>)),
     JsonFile(FailedControls(<<PyNone>>))}

\* {"results": [{"issue_severity": s}, ...]}
BanditResults(severities) ==
    Dict1("results",
          PyList([i \in 1..Len(severities) |->
                     IF severities[i] = Missing THEN EmptyDict
                     ELSE Dict1("issue_severity", severities[i])]))

BanditReports ==
    {Absent, Unreadable,
     JsonFile(BanditResults(<<PyStr("HIGH")>>)),
     JsonFile(BanditResults(<<PyStr("medium"), PyStr("HIGH"), PyStr("HIGH")>>)),
     JsonFile(BanditResults(<<Missing, PyStr("UNDEFINED")>>))}

SafetyReports ==
    {Absent, Unreadable, UndecodableJson,
     TextFile("0 vulnerabilities reported"),
     TextFile("10 vulnerabilities reported"),
     TextFile("Found 3  vulnerabilities in 2 packages"),
     TextFile("1 vulnerability found"),
     TextFile("No known security issues")}

SecretLines == {"id_rsa", "site-packages/certifi/cacert.pem", "  "}

SecretsReports == {Absent} \cup {TextFile(b) : b \in Bodies(SecretLines, MaxSecrets)}

SecurityDirs ==
    {NoDir} \cup
    [k : {"dir"}, checkov : CheckovReports, bandit : BanditReports,
     safety : SafetyReports, secrets : SecretsReports]

InitSecurity ==
    /\ fs = NoDirs
    /\ InitAnalyzer
    /\ sources = <<>>
    /\ collected = NoCollection
    /\ security \in {[pc |-> "entry", dir |-> d, metrics |-> EmptyMap, exc |-> ""] :
                        d \in SecurityDirs}

SpecSecurity == InitSecurity /\ [][NextSecurity]_vars

\* the penalty of a level when a vulnerability of the level was counted
Penalty(level, penalty) ==
    IF security.metrics.vulnerabilities[level] > 0 THEN penalty ELSE 0

\* C30: when collect_security_metrics returns, overall_score is 0 if the
\* security-reports directory does not exist, and otherwise 100 minus 40 if
\* any critical, 20 if any high, 10 if any medium and 5 if any low
\* vulnerability was counted, each at most once; so it is 0 or within 25..100.
C30_SecurityScore ==
    security.pc = "returned" =>
        /\ security.metrics.overall_score =
               IF ~Exists(security.dir) THEN 0
               ELSE 100 - Penalty("critical", 40) - Penalty("high", 20)
                        - Penalty("medium", 10) - Penalty("low", 5)
        /\ security.metrics.overall_score \in {0} \cup 25..100

\* two secrets, high, medium and low findings: every penalty once, score 25
C30_Witness ==
    /\ security.pc = "returned"
    /\ security.metrics.vulnerabilities.critical = 2
    /\ security.metrics.vulnerabilities.high = 2
    /\ security.metrics.vulnerabilities.medium > 1
    /\ security.metrics.vulnerabilities.low > 0
    /\ security.metrics.overall_score = 25

====
